---------------------------- MODULE Spec2Model ----------------------------
(***************************************************************************)
(* Wireless_espnow_lib: the reliable datagram transport (w_main.c), the    *)
(* pairing handshake (w_connect.c), the parameter service (w_param.c) and  *)
(* the file service (w_files.c).                                           *)
(*                                                                         *)
(* SpecRdt   one logical channel, node A's send machine and node B's       *)
(*           reassembler, packets in flight in both directions.            *)
(* SpecLoss  the same send machine on a link that loses every packet.      *)
(* SpecS1    the same channel on a link that loses nothing.                *)
(* SpecS2    the same channel on a link that loses one DATA packet.        *)
(* SpecS3    the same channel, the first transmissions lost entirely.      *)
(* SpecCrc   the same channel on a link that flips one bit of a packet.    *)
(* SpecOrd   the same channel on a lossy link, the emitted packets noted.  *)
(* SpecClear the same channel, its rx queue cleared by the application.    *)
(* SpecFilter node B's rdt_recv_cb with datagrams of several stations.     *)
(* SpecPair  two nodes running the pairing handshake over W_CHAN_SYSTEM.   *)
(* SpecParam a client node's tasks calling w_param_request_blocking and    *)
(*           both nodes' w_param_process_packet over W_CHAN_PARAMS.        *)
(* SpecFiles a client node's tasks calling w_files_list/read/write and     *)
(*           both nodes' w_files_receive_cb over W_CHAN_FILES.             *)
(* SpecFileReq the server's w_files_receive_cb with any request blocks.    *)
(* SpecNack  node A's NACK handler with NACK packets of any content.       *)
(* SpecPairAny one node running the pairing handshake, the SYSTEM blocks   *)
(*           it receives being of any type and carrying any MAC.           *)
(* SpecMutex node B's rdt_recv_cb, rdt_task and application calls, the     *)
(*           work unit of rdt_task in steps, with s_rdt_mutex.             *)
(***************************************************************************)
EXTENDS Integers, Sequences, FiniteSets, TLC

(***************************************************************************)
(* Bounds of the model.  The payload length, the queue lengths and the     *)
(* event-queue length are program constants (192, 5, 30) scaled down.      *)
(***************************************************************************)
RDT_PACKET_PAYLOAD_LEN == 4
MaxDataPackets == 2
MaxBlocks == 2
QueueLen == 1
EventQueueLen == 5
MaxLost == 1
MaxEarly == 1
MaxOutages == 1
MaxFaults == 2
MaxCorrupt == 1
MaxDatagrams == 4
MaxTicks == 2
S3LostRetries == 2
MaxClears == 1
MaxPeerNacks == 1
MaxStatCalls == 2
MaxSysBlocks == 2

(***************************************************************************)
(* Program constants.                                                      *)
(***************************************************************************)
RDT_MAX_RETRY_COUNT == 5
RDT_MSG_BEGIN == 1
RDT_MSG_DATA == 2
RDT_MSG_END == 3
RDT_MSG_ASK == 4
RDT_MSG_NACK == 5

NULL == 0

\* max_block_size of the channel (Rdt_ChannelInit): a whole number of payloads
max_block_size == MaxDataPackets * RDT_PACKET_PAYLOAD_LEN

\* sizes the application sends: for each packet count a full and a short tail
BlockSizes ==
    {RDT_PACKET_PAYLOAD_LEN - 1, max_block_size}

\* addresses malloc/calloc can return; enough for every holder at once
Ptrs == 1 .. (2 * QueueLen + 4)

VARIABLES
    tx,          \* node A: s_channels[c].tx_ctrl
    rx,          \* node B: s_channels[c].rx_ctrl
    tx_queue,    \* node A: s_channels[c].tx_queue  (rdt_block_item_t)
    rx_queue,    \* node B: s_channels[c].rx_queue  (rdt_block_item_t)
    expired,     \* (now - tx.last_send_time) > RDT_ACK_TIMEOUT_MS * 1000
    netAB,       \* packets A -> B, sent and not yet taken by B's rdt_task
    netBA,       \* packets B -> A, sent and not yet taken by A's rdt_task
    heap,        \* contents of the live allocations
    alive,       \* the live allocations
    held,        \* block item the consumer took with Rdt_ReceiveBlock
    link,        \* the radio link: "lossy", "down" (an outage) or a scenario
    hist,        \* history of the run (what was sent, lost, freed, ...)
    pnode,       \* per node: w_connect.c statics, persisted peer, s_peer_macaddr
    systx,       \* per node: tx_queue of W_CHAN_SYSTEM
    sysrx,       \* per node: rx_queue of W_CHAN_SYSTEM
    sysev,       \* per node: WIRELESS events of W_CHAN_SYSTEM not yet dispatched
    ptask,       \* per client task: its call of w_param_request_blocking
    pglob,       \* per node: w_param.c statics, parameter table and values
    pchan,       \* per node: PARAMS blocks on their way to the node's handler
    plog,        \* the last run of w_param_process_packet and what it sent
    ftask,       \* per client task: its call of w_files_send_request_blocking
    fglob,       \* per node: w_files.c statics
    fchan,       \* per node: FILES blocks on their way to the node's handler
    fdisk,       \* per node: the file the requests name
    flog,        \* the last run of w_files_receive_cb, the request ids sent
    rssi,        \* node B: the link statistics (rssi_t rssi)
    ticks,       \* node B: xTaskGetTickCount()
    sync         \* node B: s_rdt_mutex, rdt_task's place in its work unit

rdtVars == <<tx, rx, tx_queue, rx_queue, expired, netAB, netBA, heap, alive,
             held, link, hist>>

pairVars == <<pnode, systx, sysrx, sysev>>
paramVars == <<ptask, pglob, pchan, plog>>
fileVars == <<ftask, fglob, fchan, fdisk, flog>>
statVars == <<rssi, ticks, sync>>
vars == <<rdtVars, pairVars, paramVars, fileVars, statVars>>

--------------------------------------------------------------------------
(* Helpers *)

Zeros(n) == [i \in 1..n |-> 0]

\* rdt_send_one_packet copies payload_len bytes into a zeroed payload
PadPayload(bytes) ==
    bytes \o Zeros(RDT_PACKET_PAYLOAD_LEN - Len(bytes))

\* the bytes of the k-th block the application sends (distinct per block
\* and per position, never 0)
BlockData(k, size) == [i \in 1..size |-> 16 * k + i]

\* a faulty variant that validates C19: the rest of the block gets no packet
\* of its own
TotalPackets_floor(size) == size \div RDT_PACKET_PAYLOAD_LEN + 2

\* (size + RDT_PACKET_PAYLOAD_LEN - 1) / RDT_PACKET_PAYLOAD_LEN + 2
TotalPackets(size) ==
    (size + RDT_PACKET_PAYLOAD_LEN - 1) \div RDT_PACKET_PAYLOAD_LEN + 2

\* size_arr[0..3]: the block size, little-endian
SizeArr(size) ==
    << size % 256, (size \div 256) % 256,
       (size \div 65536) % 256, (size \div 16777216) % 256 >>

\* BEGIN: the size the receiver reads from payload[0..3]
BeginSize(payload) ==
    IF payload[1] # 0 \/ payload[2] # 0 \/ payload[3] # 0 \/ payload[4] # 0
    THEN payload[1] + payload[2] * 256 + payload[3] * 65536
         + payload[4] * 16777216
    ELSE max_block_size

\* the payload of DATA packet seq of a block of `size` bytes held in `buf`
DataChunk(buf, size, seq) ==
    LET offset == (seq - 1) * RDT_PACKET_PAYLOAD_LEN
        chunk_len == IF offset + RDT_PACKET_PAYLOAD_LEN > size
                     THEN size - offset ELSE RDT_PACKET_PAYLOAD_LEN
    IN  SubSeq(buf, offset + 1, offset + chunk_len)

RECURSIVE WeightedSum(_, _)
WeightedSum(bytes, i) ==
    IF i > Len(bytes) THEN 0 ELSE (i + 2) * bytes[i] + WeightedSum(bytes, i + 1)

\* rdt_calc_crc: a checksum over every byte of the packet before the crc
\* field.  Like CRC-32 it changes whenever one bit of those bytes changes;
\* the model's packets keep it far below 2^32
rdt_calc_crc(seq, code, payload) ==
    1 + seq + 2 * code + WeightedSum(payload, 1)

\* a faulty variant that validates C17: the crc field is not looked at
CrcOk_any(pkt) == TRUE

\* the test of rdt_process_received_packet on the packet's crc field
CrcOk(pkt) == rdt_calc_crc(pkt.seq_num, pkt.service_code, pkt.payload) = pkt.crc

\* rdt_send_one_packet: the packet handed to esp_now_send
MkPacket(seq, code, bytes) ==
    [seq_num |-> seq, service_code |-> code, payload |-> PadPayload(bytes),
     crc |-> rdt_calc_crc(seq, code, PadPayload(bytes))]

\* the packet the sender emits for sequence number seq of its current block
TxPacket(t, buf, seq) ==
    IF seq = 0 THEN MkPacket(0, RDT_MSG_BEGIN, SizeArr(t.current_size))
    ELSE IF seq = t.total_packets - 1 THEN MkPacket(seq, RDT_MSG_END, <<>>)
    ELSE MkPacket(seq, RDT_MSG_DATA, DataChunk(buf, t.current_size, seq))

\* esp_now_send followed by the peer's rdt_recv_cb: the packets of pkts whose
\* mask entry is TRUE are lost on the air; the others are queued for the
\* peer's rdt_task unless its event queue is full.  The result is the queue
\* and the set of <<service_code, seq_num>> that did not get through.
RECURSIVE Deliver(_, _, _, _)
Deliver(net, pkts, mask, gone) ==
    IF pkts = <<>> THEN [net |-> net, gone |-> gone]
    ELSE IF mask[1] \/ Len(net) >= EventQueueLen
         THEN Deliver(net, Tail(pkts), Tail(mask),
                      gone \cup {<<pkts[1].service_code, pkts[1].seq_num>>})
         ELSE Deliver(Append(net, pkts[1]), Tail(pkts), Tail(mask), gone)

Masks(n) == [1..n -> BOOLEAN]

NLost(mask) == Cardinality({i \in DOMAIN mask : mask[i]})

\* calloc: the lowest free address
Alloc(al) == CHOOSE p \in Ptrs \ al : \A q \in Ptrs \ al : p <= q

--------------------------------------------------------------------------
(* The heap *)

\* free(p): releasing an address that is not live is a double free
Free(S, p) ==
    IF p \in S.alive
    THEN [S EXCEPT !.alive = @ \ {p}, !.heap[p] = <<>>]
    ELSE [S EXCEPT !.hist.doubleFree = TRUE]

\* the same, noting in the history which path of the program freed
FreeBy(S, p, who) ==
    [Free(S, p) EXCEPT !.hist.frees = @ \cup {who}]

\* the bytes read through p; reading a freed buffer is a use after free
ReadBuf(S, p, size) == IF p \in S.alive THEN S.heap[p] ELSE Zeros(size)

NoteRead(S, p) ==
    IF p \in S.alive THEN S ELSE [S EXCEPT !.hist.useAfterFree = TRUE]

\* the model's state as one record, so that the handlers are operators
State ==
    [tx |-> tx, rx |-> rx, tx_queue |-> tx_queue, rx_queue |-> rx_queue,
     expired |-> expired, heap |-> heap, alive |-> alive, hist |-> hist]

--------------------------------------------------------------------------
(* Node A: rdt_process_tx_channel and rdt_restart_tx_block *)

\* packet_sent_map after calloc and packet_sent_map[0] = true
FreshSentMap(total) == [i \in 0..(total - 1) |-> i = 0]

\* rdt_process_tx_channel, branch !tx->sending: take a block from tx_queue
TxStartBlock(S) ==
    LET item == Head(S.tx_queue)
        total == TotalPackets(item.data_size)
    IN  [S EXCEPT
           !.tx_queue = Tail(@),
           !.tx = [sending |-> TRUE, retry_count |-> 0,
                   current_size |-> item.data_size,
                   tx_buffer |-> item.data_ptr,
                   total_packets |-> total,
                   packet_sent_map |-> FreshSentMap(total),
                   next_seq_to_send |-> 1],
           !.expired = FALSE]

\* rdt_process_tx_channel, retry_count >= RDT_MAX_RETRY_COUNT: give up
TxAbandon(S) ==
    LET S1 == FreeBy(S, S.tx.tx_buffer, "abandon")
    IN  [S1 EXCEPT !.tx.packet_sent_map = <<>>,
                   !.tx.tx_buffer = NULL,
                   !.tx.sending = FALSE]

\* a faulty variant that validates C20: the restart counts a retry as well
rdt_restart_tx_block_count(S) ==
    [S EXCEPT !.tx.packet_sent_map = FreshSentMap(S.tx.total_packets),
              !.tx.next_seq_to_send = 1,
              !.tx.retry_count = @ + 1,
              !.expired = FALSE]

\* rdt_restart_tx_block
rdt_restart_tx_block(S) ==
    [S EXCEPT !.tx.packet_sent_map = FreshSentMap(S.tx.total_packets),
              !.tx.next_seq_to_send = 1,
              !.expired = FALSE]

\* the sequence numbers the while loop of rdt_process_tx_channel sends
RECURSIVE UnsentFrom(_, _)
UnsentFrom(t, seq) ==
    IF seq >= t.total_packets THEN <<>>
    ELSE (IF t.packet_sent_map[seq] THEN <<>> ELSE <<seq>>)
         \o UnsentFrom(t, seq + 1)

\* rdt_process_tx_channel, the while loop: send what was not sent yet
TxDrain(S) ==
    LET t == S.tx
        seqs == UnsentFrom(t, t.next_seq_to_send)
    IN  [NoteRead(S, t.tx_buffer) EXCEPT
           !.tx.packet_sent_map =
               [i \in DOMAIN @ |-> @[i] \/ (i >= t.next_seq_to_send)],
           !.tx.next_seq_to_send =
               IF @ < t.total_packets THEN t.total_packets ELSE @,
           !.expired = IF seqs = <<>> THEN @ ELSE FALSE]

\* a faulty variant that validates C3: the retry limit compared with >
rdt_process_tx_channel_late(S) ==
    IF ~S.tx.sending
    THEN IF Len(S.tx_queue) > 0 THEN TxStartBlock(S) ELSE S
    ELSE IF S.expired
         THEN LET S1 == [S EXCEPT !.tx.retry_count = @ + 1]
              IN  IF S1.tx.retry_count > RDT_MAX_RETRY_COUNT
                  THEN TxAbandon(S1)
                  ELSE rdt_restart_tx_block(S1)
         ELSE TxDrain(S)

\* the state rdt_process_tx_channel leaves
rdt_process_tx_channel(S) ==
    IF ~S.tx.sending
    THEN IF Len(S.tx_queue) > 0 THEN TxStartBlock(S) ELSE S
    ELSE IF S.expired
         THEN LET S1 == [S EXCEPT !.tx.retry_count = @ + 1]
              IN  IF S1.tx.retry_count >= RDT_MAX_RETRY_COUNT
                  THEN TxAbandon(S1)
                  ELSE rdt_restart_tx_block(S1)
         ELSE TxDrain(S)

\* a faulty variant that validates C21: the while loop runs from the last
\* sequence number down
TxEmits_desc(S) ==
    IF ~S.tx.sending
    THEN IF Len(S.tx_queue) > 0
         THEN << MkPacket(0, RDT_MSG_BEGIN, SizeArr(Head(S.tx_queue).data_size)) >>
         ELSE <<>>
    ELSE IF S.expired
         THEN IF S.tx.retry_count + 1 >= RDT_MAX_RETRY_COUNT
              THEN <<>>
              ELSE << MkPacket(0, RDT_MSG_BEGIN, SizeArr(S.tx.current_size)) >>
         ELSE LET seqs == UnsentFrom(S.tx, S.tx.next_seq_to_send)
                  buf == ReadBuf(S, S.tx.tx_buffer, S.tx.current_size)
              IN  [i \in 1..Len(seqs) |->
                     TxPacket(S.tx, buf, seqs[Len(seqs) + 1 - i])]

\* the packets rdt_process_tx_channel hands to rdt_send_one_packet, in order
TxEmits(S) ==
    IF ~S.tx.sending
    THEN IF Len(S.tx_queue) > 0
         THEN << MkPacket(0, RDT_MSG_BEGIN, SizeArr(Head(S.tx_queue).data_size)) >>
         ELSE <<>>
    ELSE IF S.expired
         THEN IF S.tx.retry_count + 1 >= RDT_MAX_RETRY_COUNT
              THEN <<>>
              ELSE << MkPacket(0, RDT_MSG_BEGIN, SizeArr(S.tx.current_size)) >>
         ELSE LET seqs == UnsentFrom(S.tx, S.tx.next_seq_to_send)
                  buf == ReadBuf(S, S.tx.tx_buffer, S.tx.current_size)
              IN  [i \in 1..Len(seqs) |->
                     TxPacket(S.tx, buf, seqs[i])]

--------------------------------------------------------------------------
(* Node A: rdt_process_received_packet, ASK and NACK *)

\* case RDT_MSG_ASK
RecvAsk(S) ==
    IF S.tx.sending
    THEN LET S1 == FreeBy(S, S.tx.tx_buffer, "ask")
         IN  [S1 EXCEPT !.tx.packet_sent_map = <<>>,
                        !.tx.tx_buffer = NULL,
                        !.tx.sending = FALSE,
                        !.hist.acked = @ \cup
                            {ReadBuf(S, S.tx.tx_buffer, S.tx.current_size)}]
    ELSE S

\* the 16-bit little-endian entry i (from 0) of a NACK payload
NackEntry(payload, i) == payload[2 * i + 1] + payload[2 * i + 2] * 256

\* the entries of a NACK payload up to the 0xFFFF terminator
RECURSIVE NackList(_, _)
NackList(payload, i) ==
    IF i >= RDT_PACKET_PAYLOAD_LEN \div 2 THEN <<>>
    ELSE IF NackEntry(payload, i) = 65535 THEN <<>>
    ELSE <<NackEntry(payload, i)>> \o NackList(payload, i + 1)

\* a faulty variant that validates C29: the loop stops after one entry
NackResends_first(S, pkt) ==
    IF S.tx.sending
    THEN SelectSeq(SubSeq(NackList(pkt.payload, 0), 1, 1),
                   LAMBDA q : q < S.tx.total_packets)
    ELSE <<>>

\* case RDT_MSG_NACK: the sequence numbers that are sent again
NackResends(S, pkt) ==
    IF S.tx.sending
    THEN SelectSeq(NackList(pkt.payload, 0),
                   LAMBDA q : q < S.tx.total_packets)
    ELSE <<>>

\* case RDT_MSG_NACK: the packets sent again, in the order of the list
NackEmits(S, pkt) ==
    LET seqs == NackResends(S, pkt)
        buf == ReadBuf(S, S.tx.tx_buffer, S.tx.current_size)
    IN  [i \in 1..Len(seqs) |-> TxPacket(S.tx, buf, seqs[i])]

RecvNack(S, pkt) ==
    LET seqs == NackResends(S, pkt)
        S1 == IF \E i \in 1..Len(seqs) :
                    seqs[i] # 0 /\ seqs[i] # S.tx.total_packets - 1
              THEN NoteRead(S, S.tx.tx_buffer) ELSE S
    IN  S1

\* rdt_process_received_packet at node A
RecvA(S, pkt) ==
    IF ~CrcOk(pkt)
    THEN [S EXCEPT !.hist.crcdrop = TRUE]
    ELSE IF pkt.service_code = RDT_MSG_ASK THEN RecvAsk(S)
    ELSE IF pkt.service_code = RDT_MSG_NACK THEN RecvNack(S, pkt)
    ELSE S

RecvAEmits(S, pkt) ==
    IF CrcOk(pkt) /\ pkt.service_code = RDT_MSG_NACK
    THEN NackEmits(S, pkt) ELSE <<>>

--------------------------------------------------------------------------
(* Node B: rdt_process_received_packet, BEGIN, DATA and END *)

\* a faulty variant that validates C30: the buffer of the reassembly in
\* progress is not freed
RecvBegin_leak(S, pkt) ==
    LET size == BeginSize(pkt.payload)
        total == TotalPackets(size)
        p == Alloc(S.alive)
    IN  [S EXCEPT
           !.alive = @ \cup {p},
           !.heap[p] = Zeros(size),
           !.rx = [receiving |-> TRUE, total_size |-> size,
                   total_packets |-> total, packets_received |-> 1,
                   rx_buffer |-> p,
                   packet_received_map |->
                       [i \in 0..(total - 1) |-> i = pkt.seq_num]]]

\* case RDT_MSG_BEGIN
RecvBegin(S, pkt) ==
    LET size == BeginSize(pkt.payload)
        total == TotalPackets(size)
        S1 == IF S.rx.rx_buffer # NULL
              THEN FreeBy(S, S.rx.rx_buffer, "begin") ELSE S
        p == Alloc(S1.alive)
    IN  [S1 EXCEPT
           !.alive = @ \cup {p},
           !.heap[p] = Zeros(size),
           !.rx = [receiving |-> TRUE, total_size |-> size,
                   total_packets |-> total, packets_received |-> 1,
                   rx_buffer |-> p,
                   packet_received_map |->
                       [i \in 0..(total - 1) |-> i = pkt.seq_num]]]

\* memcpy(rx->rx_buffer + offset, pkt->payload, copy_len)
CopyChunk(buf, total_size, seq, payload) ==
    LET offset == (seq - 1) * RDT_PACKET_PAYLOAD_LEN
        copy_len == IF offset + RDT_PACKET_PAYLOAD_LEN > total_size
                    THEN total_size - offset ELSE RDT_PACKET_PAYLOAD_LEN
    IN  IF offset >= 0 /\ offset < total_size
        THEN [i \in 1..Len(buf) |->
                IF i > offset /\ i <= offset + copy_len
                THEN payload[i - offset] ELSE buf[i]]
        ELSE buf

\* a faulty variant that validates C16: the DATA handler does not look at
\* packet_received_map
RecvData_nomap(S, pkt) ==
    IF ~S.rx.receiving THEN S
    ELSE IF pkt.seq_num >= S.rx.total_packets THEN S
    ELSE LET S1 == NoteRead(S, S.rx.rx_buffer)
         IN  [S1 EXCEPT
                !.rx.packet_received_map[pkt.seq_num] = TRUE,
                !.rx.packets_received = @ + 1,
                !.heap[S.rx.rx_buffer] =
                    IF S.rx.rx_buffer \in S.alive
                    THEN CopyChunk(@, S.rx.total_size, pkt.seq_num, pkt.payload)
                    ELSE @]

\* case RDT_MSG_DATA
RecvData(S, pkt) ==
    IF ~S.rx.receiving THEN S
    ELSE IF pkt.seq_num >= S.rx.total_packets THEN S
    ELSE IF S.rx.packet_received_map[pkt.seq_num] THEN S
    ELSE LET S1 == NoteRead(S, S.rx.rx_buffer)
         IN  [S1 EXCEPT
                !.rx.packet_received_map[pkt.seq_num] = TRUE,
                !.rx.packets_received = @ + 1,
                !.heap[S.rx.rx_buffer] =
                    IF S.rx.rx_buffer \in S.alive
                    THEN CopyChunk(@, S.rx.total_size, pkt.seq_num, pkt.payload)
                    ELSE @]

\* rx state after the END packet was marked
MarkEnd(S, pkt) ==
    IF S.rx.packet_received_map[pkt.seq_num] THEN S
    ELSE [S EXCEPT !.rx.packet_received_map[pkt.seq_num] = TRUE,
                   !.rx.packets_received = @ + 1]

\* rx_queue_len of the channel (Rdt_ChannelInit): one more than the tx queue
\* on the links where the order of the queued blocks is looked at
RxQueueLen == IF link \in {"ord", "clear"} THEN QueueLen + 1 ELSE QueueLen

\* the history after xQueueSend put a block with these bytes in rx_queue
Queued(h, bytes) ==
    IF link = "ord" THEN [h EXCEPT !.queued = Append(@, bytes)] ELSE h

\* a faulty variant that validates C4: rx_buffer is not forgotten after the
\* block was handed over
CompleteBlock_keep(S) ==
    LET item == [data_ptr |-> S.rx.rx_buffer, data_size |-> S.rx.total_size]
        bytes == ReadBuf(S, S.rx.rx_buffer, S.rx.total_size)
        S1 == IF Len(S.rx_queue) < RxQueueLen
              THEN [S EXCEPT !.rx_queue = Append(@, item),
                             !.hist = Queued([@ EXCEPT !.reasm = @ \cup {bytes}],
                                             bytes)]
              ELSE [FreeBy(S, S.rx.rx_buffer, "full") EXCEPT
                             !.hist.reasm = @ \cup {bytes}]
    IN  [S1 EXCEPT !.rx.packet_received_map = <<>>,
                   !.rx.receiving = FALSE]

\* a faulty variant that validates C27: the block that finds rx_queue full
\* is not freed
CompleteBlock_leak(S) ==
    LET item == [data_ptr |-> S.rx.rx_buffer, data_size |-> S.rx.total_size]
        bytes == ReadBuf(S, S.rx.rx_buffer, S.rx.total_size)
        S1 == IF Len(S.rx_queue) < RxQueueLen
              THEN [S EXCEPT !.rx_queue = Append(@, item),
                             !.hist = Queued([@ EXCEPT !.reasm = @ \cup {bytes}],
                                             bytes)]
              ELSE [S EXCEPT !.hist.reasm = @ \cup {bytes}]
    IN  [S1 EXCEPT !.rx.rx_buffer = NULL,
                   !.rx.packet_received_map = <<>>,
                   !.rx.receiving = FALSE]

\* END with every packet present: hand the block to rx_queue, or free it
\* when the queue is full; then forget the buffer and leave receiving
CompleteBlock(S) ==
    LET item == [data_ptr |-> S.rx.rx_buffer, data_size |-> S.rx.total_size]
        bytes == ReadBuf(S, S.rx.rx_buffer, S.rx.total_size)
        S1 == IF Len(S.rx_queue) < RxQueueLen
              THEN [S EXCEPT !.rx_queue = Append(@, item),
                             !.hist = Queued([@ EXCEPT !.reasm = @ \cup {bytes}],
                                             bytes)]
              ELSE [FreeBy(S, S.rx.rx_buffer, "full") EXCEPT
                             !.hist.reasm = @ \cup {bytes}]
    IN  [S1 EXCEPT !.rx.rx_buffer = NULL,
                   !.rx.packet_received_map = <<>>,
                   !.rx.receiving = FALSE]

\* case RDT_MSG_END
RecvEnd(S, pkt) ==
    IF ~S.rx.receiving THEN S
    ELSE IF pkt.seq_num # S.rx.total_packets - 1 THEN S
    ELSE LET S1 == MarkEnd(S, pkt)
         IN  IF S1.rx.packets_received = S1.rx.total_packets
             THEN CompleteBlock(S1)
             ELSE S1

\* rdt_send_nack_for_missing: the payload listing the missing packets
RECURSIVE NackBuffer(_, _, _)
NackBuffer(map, i, acc) ==
    IF i \notin DOMAIN map
    THEN IF Len(acc) + 2 <= RDT_PACKET_PAYLOAD_LEN
         THEN acc \o <<255, 255>> ELSE acc
    ELSE IF map[i] THEN NackBuffer(map, i + 1, acc)
    ELSE IF Len(acc) + 2 <= RDT_PACKET_PAYLOAD_LEN
         THEN NackBuffer(map, i + 1, acc \o <<i % 256, (i \div 256) % 256>>)
         ELSE acc

rdt_send_nack_for_missing(r) ==
    MkPacket(0, RDT_MSG_NACK, NackBuffer(r.packet_received_map, 0, <<>>))

\* rdt_process_received_packet at node B
RecvB(S, pkt) ==
    IF ~CrcOk(pkt)
    THEN [S EXCEPT !.hist.crcdrop = TRUE]
    ELSE IF pkt.service_code = RDT_MSG_BEGIN THEN RecvBegin(S, pkt)
    ELSE IF pkt.service_code = RDT_MSG_DATA THEN RecvData(S, pkt)
    ELSE IF pkt.service_code = RDT_MSG_END THEN RecvEnd(S, pkt)
    ELSE S

\* what node B answers: a NACK or an ASK on a valid END, else nothing
RecvBEmits(S, pkt) ==
    IF CrcOk(pkt) /\ pkt.service_code = RDT_MSG_END /\ S.rx.receiving
       /\ pkt.seq_num = S.rx.total_packets - 1
    THEN LET S1 == MarkEnd(S, pkt)
         IN  IF S1.rx.packets_received = S1.rx.total_packets
             THEN << MkPacket(0, RDT_MSG_ASK, <<>>) >>
             ELSE << rdt_send_nack_for_missing(S1.rx) >>
    ELSE <<>>

--------------------------------------------------------------------------
(* The two nodes; the parameter service's data *)

Nodes == {1, 2}
Other(n) == 3 - n

\* w_param_request_blocking is called on the client node, by these tasks
ClientNode == 1
Tasks == {"t1", "t2"}
NoTask == "none"

\* calls of w_param_request_blocking per task
MaxCalls == 1
\* PARAMS channel queues (5 in Wireless_Channels_Init, scaled down)
ParamQueueLen == 2
\* size of the caller's response buffer
RespBufLen == 1

W_PARAM_GET == 0
W_PARAM_SET == 1
W_MSG_TYPE_PARAM_TIME == 20
W_MSG_TYPE_PARAM_MC_CONFIG == 21
RC_INITIAL == 255
RC_BUSY == 254
RC_SEND_FAILED == 253
RC_TIMEOUT == 252

ParamTypes == {W_MSG_TYPE_PARAM_TIME, W_MSG_TYPE_PARAM_MC_CONFIG}

\* a descriptor of g_param_table: absent, or with read_fn and/or write_fn
DescKinds == {"none", "rw", "ro", "wo"}
HasRead(k) == k \in {"rw", "ro"}
HasWrite(k) == k \in {"rw", "wo"}

\* the byte behind the 3-byte header allocation, read by the oversized send
JunkBytes == {0, 85}
\* the value a SET request carries, the value a parameter starts with
SetValue == <<9>>
StartValue == <<7>>

\* the statics of w_param.c after w_param_init(table)
ParamGlobals(table) ==
    [in_progress |-> FALSE, req_msg_type |-> 0, req_set_or_get |-> 0,
     resp_return_code |-> RC_INITIAL, resp_data_len |-> 0,
     resp_user_buf |-> NoTask, resp_user_size |-> NoTask, sem |-> 0,
     table |-> table, val |-> [m \in ParamTypes |-> StartValue],
     answered |-> FALSE]

\* a task that has not called yet
TaskIdle ==
    [pc |-> "idle", message_type |-> W_MSG_TYPE_PARAM_TIME,
     set_or_get |-> W_PARAM_GET, value |-> <<>>, resp_data |-> <<>>,
     resp_size |-> 0, return_code |-> RC_INITIAL, ret |-> 0,
     returned |-> FALSE, calls |-> 0, after_timeout |-> FALSE]

NoBlock == [message_type |-> 0, set_or_get |-> 0, return_code |-> 0, data |-> <<>>]

ParamInitWith(tables) ==
    /\ ptask = [t \in Tasks |-> TaskIdle]
    /\ pglob = [n \in Nodes |-> ParamGlobals(tables[n])]
    /\ pchan = [n \in Nodes |-> <<>>]
    /\ plog = [node |-> 0, req |-> NoBlock, replies |-> <<>>]

ParamIdle == ParamInitWith([n \in Nodes |-> [m \in ParamTypes |-> "none"]])

\* wireless_pairing_task: the loop runs while less than 10000 ms have
\* passed, with a 1000 ms delay per round (scaled down)
PairingRounds == 3
\* SYSTEM channel queues (5 in Wireless_Channels_Init, scaled down)
SysQueueLen == 2
\* W_event_loop queue (10 in Wireless_Init, scaled down)
EventLoopLen == 3

W_MSG_TYPE_SYSTEM_PAIRING_MAC == 1
W_MSG_TYPE_SYSTEM_PAIRING_DONE == 2
CON_NOT_PAIRED == 0
CON_PAIRED == 1
CON_PAIRING_ACTIVE == 2
ZERO_MAC == 0
BROADCAST_MAC == 255

\* esp_read_mac: a node's own address
MyMac(n) == n

\* a node after Wireless_Init: s_peer_macaddr is the persisted peer, or the
\* broadcast address when none is persisted
NodeAfterInit(n, paired) ==
    [persisted |-> IF paired THEN MyMac(Other(n)) ELSE ZERO_MAC,
     peer |-> IF paired THEN MyMac(Other(n)) ELSE BROADCAST_MAC,
     pairing_active |-> FALSE, have_temp_peer |-> FALSE,
     temp_peer_mac |-> ZERO_MAC, got_done_from_peer |-> FALSE,
     registered |-> FALSE, task |-> "none", rounds |-> 0,
     fresh |-> ~paired, joined |-> FALSE]

PairInitWith(paired) ==
    /\ pnode = [n \in Nodes |-> NodeAfterInit(n, paired)]
    /\ systx = [n \in Nodes |-> <<>>]
    /\ sysrx = [n \in Nodes |-> <<>>]
    /\ sysev = [n \in Nodes |-> 0]

\* two paired nodes, no pairing under way
PairIdle == PairInitWith(TRUE)

--------------------------------------------------------------------------
(* The file service's data *)

\* calls of w_files_list / w_files_read / w_files_write per task
MaxFileCalls == 1
\* FILES channel queues (5 in Wireless_Channels_Init, scaled down)
FileQueueLen == 1
\* size of the caller's out_data buffer
FileBufLen == 1
\* length of the path the client's calls name
FilePathLen == 1
\* request blocks a peer of any make sends to the server
MaxPeerBlocks == 2

W_FILES_CMD_LIST == 1
W_FILES_CMD_LIST_RESP == 2
W_FILES_CMD_READ == 3
W_FILES_CMD_READ_RESP == 4
W_FILES_CMD_WRITE == 5
W_FILES_CMD_WRITE_RESP == 6
W_FILES_HEADER_LEN == 16
W_FILES_MAX_PATH == 128
W_FILES_MAX_DATA == 4096
W_FILES_OK == 0
W_FILES_ERR_NOFILE == 2
W_FILES_ERR_TOOLARGE == 4
W_FILES_ERR_INTERNAL == 5
FILES_RC_INITIAL == 255
\* request ids are uint16_t
IdModulus == 65536

FileRequests == {W_FILES_CMD_LIST, W_FILES_CMD_READ, W_FILES_CMD_WRITE}
FileResponses == {W_FILES_CMD_LIST_RESP, W_FILES_CMD_READ_RESP,
                  W_FILES_CMD_WRITE_RESP}

\* g_next_request_id after Wireless_Files_Init, and shortly before it wraps
IdStarts == {1, IdModulus - 1}

NoOwner == "none"
\* the bytes w_files_write sends, the file's bytes, the directory listing
WriteData == <<4>>
DiskData == <<6>>
ListData == <<8>>

\* the statics of w_files.c after Wireless_Files_Init
FileGlobals(next) ==
    [in_progress |-> FALSE, mutex |-> NoOwner, sem |-> 0,
     next_request_id |-> next, current_request_id |-> 0,
     resp_return_code |-> FILES_RC_INITIAL, resp_buffer |-> <<>>,
     resp_data_len |-> 0]

FileTaskIdle ==
    [pc |-> "idle", command |-> W_FILES_CMD_LIST, toolarge |-> FALSE,
     out_data |-> <<>>, inout_size |-> 0, return_code |-> FILES_RC_INITIAL,
     ret |-> 0, returned |-> FALSE, calls |-> 0]

NoFileBlock ==
    [command |-> 0, return_code |-> 0, request_id |-> 0, path_length |-> 0,
     data_length |-> 0, size |-> 0, data |-> <<>>]

FilesInitWith(next, exists) ==
    /\ ftask = [t \in Tasks |-> FileTaskIdle]
    /\ fglob = [n \in Nodes |-> FileGlobals(IF n = ClientNode THEN next ELSE 1)]
    /\ fchan = [n \in Nodes |-> <<>>]
    /\ fdisk = [n \in Nodes |-> [exists |-> exists, content |-> DiskData]]
    /\ flog = [node |-> 0, pkt |-> NoFileBlock, idle |-> FALSE, stale |-> FALSE,
               sent |-> <<>>, replies |-> <<>>, fsop |-> FALSE, peer |-> 0]

FilesIdle == FilesInitWith(1, TRUE)

--------------------------------------------------------------------------
(* The link statistics' data *)

\* s_rdt_mutex is free, rdt_task waits for an event, no Wireless_* call of
\* the application is on record; `by` is the code that took the last step
SyncIdle ==
    [mutex |-> "none", task |-> "wait", reg |-> 0, by |-> "none", calls |-> 0,
     lost |-> FALSE]

\* static rssi_t rssi = {0}, the tick count at boot
StatIdle ==
    /\ rssi = [rssi |-> 0, last_rssi_update |-> 0, total_packets_sent |-> 0]
    /\ ticks = 0
    /\ sync = SyncIdle

--------------------------------------------------------------------------
(* The transport's actions *)

\* nothing is in flight and the sender has nothing left to send: from here
\* only the clock (or the application) moves the transport on
Settled ==
    /\ netAB = <<>>
    /\ netBA = <<>>
    /\ tx.sending => tx.next_seq_to_send >= tx.total_packets

\* the faults the environment has spent of its budget
Faults == hist.nlost + hist.early + hist.outages

\* the losses the link may inflict on a burst `out`: every packet during an
\* outage; single packets within the budget on a lossy link; in scenario
\* S2 the first DATA packet with seq_num 2 and nothing else; in scenario S3
\* every packet of the first transmission and of the first S3LostRetries
\* retransmissions (rc is the sender's retry_count when the burst goes out)
LossAllowed(out, mask, rc) ==
    IF link = "down" THEN \A i \in DOMAIN mask : mask[i]
    ELSE IF link = "s2"
    THEN \A i \in DOMAIN mask :
            mask[i] <=> /\ hist.nlost = 0
                        /\ out[i].service_code = RDT_MSG_DATA
                        /\ out[i].seq_num = 2
    ELSE IF link = "s3"
    THEN \A i \in DOMAIN mask : mask[i] <=> rc <= S3LostRetries
    ELSE IF link \in {"crc", "filter", "s1"}
    THEN \A i \in DOMAIN mask : ~mask[i]
    ELSE /\ hist.nlost + NLost(mask) <= MaxLost
         /\ Faults + NLost(mask) <= MaxFaults

\* the history after a burst with the losses of mask
Lose(h, mask) ==
    [h EXCEPT !.nlost = @ + (IF link \in {"down", "s3"} THEN 0 ELSE NLost(mask))]

\* the history after the burst `out` went on the air (kept in scenario S1;
\* with a peer of any make the last burst is kept)
Wire(h, out) ==
    IF link = "s1" THEN [h EXCEPT !.wire = @ \o out]
    ELSE IF link = "nack" THEN [h EXCEPT !.wire = out]
    ELSE h

\* seq_num and service_code of the packets pkts, with the code that sent them
Tag(pkts, by) ==
    [i \in DOMAIN pkts |->
        [seq_num |-> pkts[i].seq_num, service_code |-> pkts[i].service_code,
         by |-> by]]

\* the history after node A handed the packets nack (NACK handler) and then
\* loop (rdt_process_tx_channel) to rdt_send_one_packet: what was emitted
\* for the block in transmission, from its first BEGIN on (fresh: the block
\* was taken from tx_queue in this step)
Emitted(h, nack, loop, fresh) ==
    IF link # "ord" THEN h
    ELSE [h EXCEPT !.emit = (IF fresh THEN <<>> ELSE @)
                                \o Tag(nack, "nack") \o Tag(loop, "loop")]

\* an outage begins: every packet sent is lost until the link is back
LinkDown ==
    /\ UNCHANGED <<pairVars, paramVars, fileVars, statVars>>
    /\ link = "lossy"
    /\ hist.outages < MaxOutages
    /\ Faults < MaxFaults
    /\ link' = "down"
    /\ hist' = [hist EXCEPT !.outages = @ + 1]
    /\ UNCHANGED <<tx, rx, tx_queue, rx_queue, expired, netAB, netBA, heap,
                   alive, held>>

LinkUp ==
    /\ UNCHANGED <<pairVars, paramVars, fileVars, statVars>>
    /\ link = "down"
    /\ link' = "lossy"
    /\ UNCHANGED <<tx, rx, tx_queue, rx_queue, expired, netAB, netBA, heap,
                   alive, held, hist>>

NoItem == [data_ptr |-> NULL, data_size |-> 0]

RdtStart(l) ==
    /\ link = l
    /\ tx = [sending |-> FALSE, retry_count |-> 0, current_size |-> 0,
             tx_buffer |-> NULL, total_packets |-> 0,
             packet_sent_map |-> <<>>, next_seq_to_send |-> 0]
    /\ rx = [receiving |-> FALSE, total_size |-> 0, total_packets |-> 0,
             packets_received |-> 0, rx_buffer |-> NULL,
             packet_received_map |-> <<>>]
    /\ tx_queue = <<>>
    /\ rx_queue = <<>>
    /\ expired = FALSE
    /\ netAB = <<>>
    /\ netBA = <<>>
    /\ heap = [p \in Ptrs |-> <<>>]
    /\ alive = {}
    /\ held = NoItem
    /\ hist = [nsent |-> 0, acked |-> {}, reasm |-> {}, frees |-> {},
               nlost |-> 0, early |-> 0, outages |-> 0,
               doubleFree |-> FALSE, useAfterFree |-> FALSE,
               corrupted |-> <<>>, crcdrop |-> FALSE,
               dgram |-> <<>>, wire |-> <<>>, emit |-> <<>>,
               queued |-> <<>>, taken |-> <<>>, clears |-> 0,
               nacks |-> 0, sysin |-> <<>>]

\* the transport at rest
RdtIdle == RdtStart("lossy")

InitWith(l) ==
    RdtStart(l) /\ PairIdle /\ ParamIdle /\ FilesIdle /\ StatIdle

\* two paired nodes after Wireless_Init and Rdt_ChannelInit, a lossy link
RdtInit == InitWith("lossy")

\* the primed variables of the state record S (the nets are set apart)
Commit(S) ==
    /\ tx' = S.tx
    /\ rx' = S.rx
    /\ tx_queue' = S.tx_queue
    /\ rx_queue' = S.rx_queue
    /\ expired' = S.expired
    /\ heap' = S.heap
    /\ alive' = S.alive

\* Rdt_SendBlock: the application allocates a block, fills it and hands it
\* over; with a full tx_queue the call fails and changes nothing here
Rdt_SendBlock(size) ==
    /\ UNCHANGED <<pairVars, paramVars, fileVars, statVars>>
    /\ hist.nsent < MaxBlocks
    /\ Len(tx_queue) < QueueLen
    /\ LET p == Alloc(alive)
           k == hist.nsent + 1
       IN  /\ alive' = alive \cup {p}
           /\ heap' = [heap EXCEPT ![p] = BlockData(k, size)]
           /\ tx_queue' = Append(tx_queue,
                  [data_ptr |-> p, data_size |-> size])
           /\ hist' = [hist EXCEPT !.nsent = k]
    /\ UNCHANGED <<tx, rx, rx_queue, expired, netAB, netBA, held, link>>

\* the clock passes RDT_ACK_TIMEOUT_MS since tx.last_send_time.  With packets
\* still queued or a burst still to send this needs a stalled task: a fault
TimePasses ==
    /\ UNCHANGED <<pairVars, paramVars, fileVars, statVars>>
    /\ tx.sending
    /\ ~expired
    /\ \/ Settled
       \/ /\ link \in {"lossy", "down"}
          /\ hist.early < MaxEarly
          /\ Faults < MaxFaults
    /\ expired' = TRUE
    /\ hist' = IF Settled THEN hist ELSE [hist EXCEPT !.early = @ + 1]
    /\ UNCHANGED <<tx, rx, tx_queue, rx_queue, netAB, netBA, heap, alive,
                   held, link>>

\* node A, rdt_task: xQueueReceive times out, the channel is ticked
ATaskTick ==
    /\ UNCHANGED <<pairVars, paramVars, fileVars, statVars>>
    /\ LET S == rdt_process_tx_channel(State)
           out == TxEmits(State)
       IN  \E mask \in Masks(Len(out)) :
             LET d == Deliver(netAB, out, mask, {})
             IN  /\ LossAllowed(out, mask, S.tx.retry_count)
                 /\ Commit(S)
                 /\ netAB' = d.net
                 /\ hist' = Emitted(Wire(Lose(S.hist, mask), out), <<>>, out,
                                    ~tx.sending /\ S.tx.sending)
    /\ UNCHANGED <<netBA, held, link>>

\* node A, rdt_task: a received packet is processed, then the channel ticked
ATaskRecv ==
    /\ UNCHANGED <<pairVars, paramVars, fileVars, statVars>>
    /\ netBA # <<>>
    /\ LET pkt == Head(netBA)
           S1 == RecvA(State, pkt)
           S2 == rdt_process_tx_channel(S1)
           out == RecvAEmits(State, pkt) \o TxEmits(S1)
       IN  \E mask \in Masks(Len(out)) :
             LET d == Deliver(netAB, out, mask, {})
             IN  /\ LossAllowed(out, mask, S2.tx.retry_count)
                 /\ Commit(S2)
                 /\ netAB' = d.net
                 /\ hist' = Emitted(Wire(Lose(S2.hist, mask), out),
                                    RecvAEmits(State, pkt), TxEmits(S1),
                                    ~S1.tx.sending /\ S2.tx.sending)
    /\ netBA' = Tail(netBA)
    /\ UNCHANGED <<held, link>>

\* node B, rdt_task: a received packet is processed (B's own tx is idle)
BTaskRecv ==
    /\ UNCHANGED <<pairVars, paramVars, fileVars, statVars>>
    /\ netAB # <<>>
    /\ LET pkt == Head(netAB)
           S == RecvB(State, pkt)
           out == RecvBEmits(State, pkt)
       IN  \E mask \in Masks(Len(out)) :
             LET d == Deliver(netBA, out, mask, {})
             IN  /\ LossAllowed(out, mask, tx.retry_count)
                 /\ Commit(S)
                 /\ netBA' = d.net
                 /\ hist' = Wire(Lose(S.hist, mask), out)
    /\ netAB' = Tail(netAB)
    /\ UNCHANGED <<held, link>>

\* the history after Rdt_ReceiveBlock returned item
Taken(h, item) ==
    LET h1 == [h EXCEPT !.useAfterFree = @ \/ item.data_ptr \notin alive]
    IN  IF link = "ord"
        THEN [h1 EXCEPT !.taken = Append(@, heap[item.data_ptr])]
        ELSE h1

\* a faulty variant that validates C22: the newest block is returned
Rdt_ReceiveBlock_last ==
    /\ UNCHANGED <<pairVars, paramVars, fileVars, statVars>>
    /\ held = NoItem
    /\ rx_queue # <<>>
    /\ held' = rx_queue[Len(rx_queue)]
    /\ rx_queue' = SubSeq(rx_queue, 1, Len(rx_queue) - 1)
    /\ hist' = Taken(hist, rx_queue[Len(rx_queue)])
    /\ UNCHANGED <<tx, rx, tx_queue, expired, netAB, netBA, heap, alive,
                   link>>

\* Rdt_ReceiveBlock: the consumer takes the oldest block of rx_queue
Rdt_ReceiveBlock ==
    /\ UNCHANGED <<pairVars, paramVars, fileVars, statVars>>
    /\ held = NoItem
    /\ rx_queue # <<>>
    /\ held' = Head(rx_queue)
    /\ rx_queue' = Tail(rx_queue)
    /\ hist' = Taken(hist, Head(rx_queue))
    /\ UNCHANGED <<tx, rx, tx_queue, expired, netAB, netBA, heap, alive,
                   link>>

\* Rdt_FreeReceivedBlock
Rdt_FreeReceivedBlock ==
    /\ UNCHANGED <<pairVars, paramVars, fileVars, statVars>>
    /\ held # NoItem
    /\ LET S == FreeBy(State, held.data_ptr, "consumer")
       IN  /\ heap' = S.heap
           /\ alive' = S.alive
           /\ hist' = S.hist
    /\ held' = NoItem
    /\ UNCHANGED <<tx, rx, tx_queue, rx_queue, expired, netAB, netBA, link>>

RdtNext ==
    \/ \E size \in BlockSizes : Rdt_SendBlock(size)
    \/ TimePasses
    \/ LinkDown
    \/ LinkUp
    \/ ATaskTick
    \/ ATaskRecv
    \/ BTaskRecv
    \/ Rdt_ReceiveBlock
    \/ Rdt_FreeReceivedBlock

SpecRdt == RdtInit /\ [][RdtNext]_vars

--------------------------------------------------------------------------
(* The link that loses every packet *)

\* the same nodes, the peer out of reach from the start
LossInit == InitWith("down")

LossNext ==
    \/ \E size \in BlockSizes : Rdt_SendBlock(size)
    \/ TimePasses
    \/ ATaskTick

\* the clock advances, and rdt_task loops for ever with a 50 ms receive
\* timeout, so a tick that changes the state is not postponed for ever
SpecLoss ==
    LossInit /\ [][LossNext]_vars /\ WF_vars(TimePasses) /\ WF_vars(ATaskTick)

--------------------------------------------------------------------------
(* Scenario S2: one DATA packet with seq_num 2 is lost *)

\* the block sizes that have a DATA packet with seq_num 2
S2Sizes == {s \in BlockSizes : TotalPackets(s) >= 4}

S2Init == InitWith("s2")

S2Next ==
    \/ \E size \in S2Sizes : Rdt_SendBlock(size)
    \/ TimePasses
    \/ ATaskTick
    \/ ATaskRecv
    \/ BTaskRecv
    \/ Rdt_ReceiveBlock
    \/ Rdt_FreeReceivedBlock

SpecS2 == S2Init /\ [][S2Next]_vars

--------------------------------------------------------------------------
(* The link that flips one bit of a packet *)

\* x with bit k flipped
Flip(x, k) == IF (x \div (2 ^ k)) % 2 = 1 THEN x - 2 ^ k ELSE x + 2 ^ k

\* the packet with one bit flipped in seq_num, service_code, the payload or
\* the crc field
BitFlips(pkt) ==
    {[pkt EXCEPT !.seq_num = Flip(@, 0)],
     [pkt EXCEPT !.service_code = Flip(@, 0)],
     [pkt EXCEPT !.service_code = Flip(@, 1)],
     [pkt EXCEPT !.payload[1] = Flip(@, 0)],
     [pkt EXCEPT !.crc = Flip(@, 0)]}

CrcInit == InitWith("crc")

\* a packet from A to B arrives with one bit flipped
CorruptAB(i) ==
    /\ UNCHANGED <<pairVars, paramVars, fileVars, statVars>>
    /\ link = "crc"
    /\ Len(hist.corrupted) < 2 * MaxCorrupt
    /\ i \in DOMAIN netAB
    /\ \E f \in BitFlips(netAB[i]) : netAB' = [netAB EXCEPT ![i] = f]
    /\ hist' = [hist EXCEPT !.corrupted =
                    @ \o <<netAB[i].service_code, netAB[i].seq_num>>]
    /\ UNCHANGED <<tx, rx, tx_queue, rx_queue, expired, netBA, heap, alive,
                   held, link>>

\* a packet from B to A arrives with one bit flipped
CorruptBA(i) ==
    /\ UNCHANGED <<pairVars, paramVars, fileVars, statVars>>
    /\ link = "crc"
    /\ Len(hist.corrupted) < 2 * MaxCorrupt
    /\ i \in DOMAIN netBA
    /\ \E f \in BitFlips(netBA[i]) : netBA' = [netBA EXCEPT ![i] = f]
    /\ hist' = [hist EXCEPT !.corrupted =
                    @ \o <<netBA[i].service_code, netBA[i].seq_num>>]
    /\ UNCHANGED <<tx, rx, tx_queue, rx_queue, expired, netAB, heap, alive,
                   held, link>>

CrcNext ==
    \/ \E size \in BlockSizes : Rdt_SendBlock(size)
    \/ TimePasses
    \/ ATaskTick
    \/ ATaskRecv
    \/ BTaskRecv
    \/ Rdt_ReceiveBlock
    \/ Rdt_FreeReceivedBlock
    \/ \E i \in 1..EventQueueLen : CorruptAB(i)
    \/ \E i \in 1..EventQueueLen : CorruptBA(i)

\* both rdt_task loops run for ever with a 50 ms receive timeout and the
\* clock advances, so none of their steps is postponed for ever
SpecCrc ==
    /\ CrcInit
    /\ [][CrcNext]_vars
    /\ WF_vars(TimePasses)
    /\ WF_vars(ATaskTick)
    /\ WF_vars(ATaskRecv)
    /\ WF_vars(BTaskRecv)

--------------------------------------------------------------------------
(* Datagrams from the peer and from other stations at node B *)

\* node B and the stations whose datagrams reach it: its peer and another
NodeB == Other(ClientNode)
Stations == {MyMac(ClientNode), MyMac(NodeB + 1)}

\* recv_info->rx_ctrl->rssi of a datagram
RssiValues == {-40, -70}

\* the packets of one short block
FilterPackets ==
    {MkPacket(0, RDT_MSG_BEGIN, SizeArr(RDT_PACKET_PAYLOAD_LEN - 1)),
     MkPacket(1, RDT_MSG_DATA, BlockData(1, RDT_PACKET_PAYLOAD_LEN - 1)),
     MkPacket(2, RDT_MSG_END, <<>>)}

\* node B paired with node A, or not paired (s_peer_macaddr is broadcast)
FilterInit ==
    /\ RdtStart("filter")
    /\ \E paired \in BOOLEAN : PairInitWith(paired)
    /\ ParamIdle
    /\ FilesIdle
    /\ StatIdle

\* a faulty variant that validates C18: the source address is not compared
rdt_recv_cb_any(peer, src, pkt, r, net, st, now) ==
    [net |-> IF Len(net) < EventQueueLen THEN Append(net, pkt) ELSE net,
     st |-> [st EXCEPT !.last_rssi_update = now, !.rssi = r]]

\* rdt_recv_cb at a node whose s_peer_macaddr is peer, for a datagram pkt
\* from src with signal strength r: the event queue and the statistics after
rdt_recv_cb(peer, src, pkt, r, net, st, now) ==
    IF src # peer
    THEN [net |-> net, st |-> st]
    ELSE [net |-> IF Len(net) < EventQueueLen THEN Append(net, pkt) ELSE net,
          st |-> [st EXCEPT !.last_rssi_update = now, !.rssi = r]]

\* the tick count advances
FilterClock ==
    /\ ticks < MaxTicks
    /\ ticks' = ticks + 1
    /\ UNCHANGED <<rdtVars, pairVars, paramVars, fileVars, rssi, sync>>

\* a datagram reaches node B
FilterDatagram(src, pkt, r) ==
    /\ Len(hist.dgram) < MaxDatagrams
    /\ LET res == rdt_recv_cb(pnode[NodeB].peer, src, pkt, r, netAB, rssi, ticks)
       IN  /\ netAB' = res.net
           /\ rssi' = res.st
    /\ hist' = [hist EXCEPT !.dgram = Append(@, src)]
    /\ UNCHANGED <<tx, rx, tx_queue, rx_queue, expired, netBA, heap, alive,
                   held, link>>
    /\ UNCHANGED <<pairVars, paramVars, fileVars, ticks, sync>>

\* node B, rdt_task: a queued packet is processed; BEGIN adds the block's
\* packets to rssi.total_packets_sent
FilterTaskRecv ==
    /\ netAB # <<>>
    /\ LET pkt == Head(netAB)
           S == RecvB(State, pkt)
           out == RecvBEmits(State, pkt)
       IN  /\ Commit(S)
           /\ netBA' = Deliver(netBA, out, [i \in DOMAIN out |-> FALSE], {}).net
           /\ hist' = S.hist
           /\ rssi' = IF CrcOk(pkt) /\ pkt.service_code = RDT_MSG_BEGIN
                      THEN [rssi EXCEPT !.total_packets_sent =
                                            @ + S.rx.total_packets]
                      ELSE rssi
    /\ netAB' = Tail(netAB)
    /\ UNCHANGED <<held, link>>
    /\ UNCHANGED <<pairVars, paramVars, fileVars, ticks, sync>>

FilterNext ==
    \/ FilterClock
    \/ \E src \in Stations : \E pkt \in FilterPackets : \E r \in RssiValues :
          FilterDatagram(src, pkt, r)
    \/ FilterTaskRecv
    \/ ATaskRecv
    \/ Rdt_ReceiveBlock
    \/ Rdt_FreeReceivedBlock

SpecFilter == FilterInit /\ [][FilterNext]_vars

--------------------------------------------------------------------------
(* s_rdt_mutex: rdt_task's work unit in steps, the callback, the application *)

MutexInit == InitWith("mutex")

\* rdt_task: xSemaphoreTake(s_rdt_mutex) with an event of the queue at hand
MxTaskTake ==
    /\ netAB # <<>>
    /\ sync.task = "wait"
    /\ sync.mutex = "none"
    /\ sync' = [sync EXCEPT !.mutex = "rdt_task", !.task = "locked",
                            !.by = "rdt_task"]
    /\ UNCHANGED <<rdtVars, pairVars, paramVars, fileVars, rssi, ticks>>

\* rdt_task, BEGIN handler: rssi.total_packets_sent is read for the `+=`
MxTaskLoad ==
    /\ sync.task = "locked"
    /\ sync' = [sync EXCEPT !.task = "loaded",
                            !.reg = rssi.total_packets_sent,
                            !.by = "rdt_task"]
    /\ UNCHANGED <<rdtVars, pairVars, paramVars, fileVars, rssi, ticks>>

\* rdt_task: the handler of the packet, with the store of the `+=` of a BEGIN
MxTaskStore ==
    /\ sync.task = "loaded"
    /\ LET pkt == Head(netAB)
           S == RecvB(State, pkt)
           out == RecvBEmits(State, pkt)
           begin == CrcOk(pkt) /\ pkt.service_code = RDT_MSG_BEGIN
       IN  /\ Commit(S)
           /\ netBA' = Deliver(netBA, out, [i \in DOMAIN out |-> FALSE], {}).net
           /\ hist' = S.hist
           /\ rssi' = IF begin
                      THEN [rssi EXCEPT !.total_packets_sent =
                                            sync.reg + S.rx.total_packets]
                      ELSE rssi
           /\ sync' = [sync EXCEPT
                         !.task = "stored",
                         !.by = "rdt_task",
                         !.lost = @ \/ (begin /\ sync.reg # rssi.total_packets_sent)]
    /\ netAB' = Tail(netAB)
    /\ UNCHANGED <<held, link>>
    /\ UNCHANGED <<pairVars, paramVars, fileVars, ticks>>

\* rdt_task: xSemaphoreGive(s_rdt_mutex)
MxTaskGive ==
    /\ sync.task = "stored"
    /\ sync' = [sync EXCEPT !.mutex = "none", !.task = "wait",
                            !.by = "rdt_task"]
    /\ UNCHANGED <<rdtVars, pairVars, paramVars, fileVars, rssi, ticks>>

\* the radio's receive callback runs rdt_recv_cb, whatever rdt_task does
MxRecvCb(src, pkt, r) ==
    /\ Len(hist.dgram) < MaxDatagrams
    /\ LET res == rdt_recv_cb(pnode[NodeB].peer, src, pkt, r, netAB, rssi, ticks)
       IN  /\ netAB' = res.net
           /\ rssi' = res.st
    /\ hist' = [hist EXCEPT !.dgram = Append(@, src)]
    /\ sync' = [sync EXCEPT !.by = "rdt_recv_cb"]
    /\ UNCHANGED <<tx, rx, tx_queue, rx_queue, expired, netBA, heap, alive,
                   held, link>>
    /\ UNCHANGED <<pairVars, paramVars, fileVars, ticks>>

\* an application task calls Wireless_Error_Rate_Get: the counters are reset
MxErrorRateGet ==
    /\ sync.calls < MaxStatCalls
    /\ rssi' = [rssi EXCEPT !.total_packets_sent = 0]
    /\ sync' = [sync EXCEPT !.by = "application", !.calls = @ + 1]
    /\ UNCHANGED <<rdtVars, pairVars, paramVars, fileVars, ticks>>

\* the pairing task calls Rdt_AddPeer(mac): s_peer_macaddr is overwritten
MxAddPeer(mac) ==
    /\ sync.calls < MaxStatCalls
    /\ pnode' = [pnode EXCEPT ![NodeB].peer = mac]
    /\ sync' = [sync EXCEPT !.by = "application", !.calls = @ + 1]
    /\ UNCHANGED <<rdtVars, systx, sysrx, sysev, paramVars, fileVars, rssi,
                   ticks>>

MutexNext ==
    \/ MxTaskTake
    \/ MxTaskLoad
    \/ MxTaskStore
    \/ MxTaskGive
    \/ \E src \in Stations : \E pkt \in FilterPackets : \E r \in RssiValues :
          MxRecvCb(src, pkt, r)
    \/ MxErrorRateGet
    \/ \E mac \in Stations : MxAddPeer(mac)

SpecMutex == MutexInit /\ [][MutexNext]_vars

--------------------------------------------------------------------------
(* Scenario S1: a block of two full payloads and a rest, nothing is lost *)

\* the block size (600 = 3 * 192 + 24 in the scenario, scaled down)
S1Size == 2 * RDT_PACKET_PAYLOAD_LEN + 1

S1Init == InitWith("s1")

S1Next ==
    \/ Rdt_SendBlock(S1Size)
    \/ ATaskTick
    \/ ATaskRecv
    \/ BTaskRecv
    \/ Rdt_ReceiveBlock
    \/ Rdt_FreeReceivedBlock

SpecS1 == S1Init /\ [][S1Next]_vars

--------------------------------------------------------------------------
(* Scenario S3: the first transmissions of a block are lost entirely *)

S3Init == InitWith("s3")

S3Next ==
    \/ \E size \in BlockSizes : Rdt_SendBlock(size)
    \/ TimePasses
    \/ ATaskTick
    \/ ATaskRecv
    \/ BTaskRecv
    \/ Rdt_ReceiveBlock
    \/ Rdt_FreeReceivedBlock

\* both rdt_task loops run for ever with a 50 ms receive timeout and the
\* clock advances, so none of their steps is postponed for ever
SpecS3 ==
    /\ S3Init
    /\ [][S3Next]_vars
    /\ WF_vars(TimePasses)
    /\ WF_vars(ATaskTick)
    /\ WF_vars(ATaskRecv)
    /\ WF_vars(BTaskRecv)

--------------------------------------------------------------------------
(* The lossy link, with the packets node A emits for a block on record *)

OrdInit == InitWith("ord")

\* every size a block of the channel can have
AllSizes == 1 .. max_block_size

OrdNext ==
    \/ \E size \in AllSizes : Rdt_SendBlock(size)
    \/ TimePasses
    \/ ATaskTick
    \/ ATaskRecv
    \/ BTaskRecv
    \/ Rdt_ReceiveBlock
    \/ Rdt_FreeReceivedBlock

SpecOrd == OrdInit /\ [][OrdNext]_vars

--------------------------------------------------------------------------
(* Node A and NACK packets of a peer of any make *)

NackInit == InitWith("nack")

\* the entries a NACK of the peer may carry: BEGIN, a DATA packet or the END
\* of the short block, the END of the long one, a number beyond every block,
\* and the terminator
NackSeqs == {0, MaxDataPackets, MaxDataPackets + 1, 256, 65535}

\* the payload of a NACK listing e1, e2
NackPayload(e1, e2) == <<e1 % 256, e1 \div 256, e2 % 256, e2 \div 256>>

\* rdt_recv_cb at node A: a NACK of the peer is queued for rdt_task
PeerNack(e1, e2) ==
    /\ UNCHANGED <<pairVars, paramVars, fileVars, statVars>>
    /\ hist.nacks < MaxPeerNacks
    /\ Len(netBA) < EventQueueLen
    /\ netBA' = Append(netBA, MkPacket(0, RDT_MSG_NACK, NackPayload(e1, e2)))
    /\ hist' = [hist EXCEPT !.nacks = @ + 1]
    /\ UNCHANGED <<tx, rx, tx_queue, rx_queue, expired, netAB, heap, alive,
                   held, link>>

NackNext ==
    \/ \E size \in BlockSizes : Rdt_SendBlock(size)
    \/ TimePasses
    \/ ATaskTick
    \/ ATaskRecv
    \/ BTaskRecv
    \/ \E e1, e2 \in NackSeqs : PeerNack(e1, e2)

SpecNack == NackInit /\ [][NackNext]_vars

--------------------------------------------------------------------------
(* The application clears the channel's rx queue or subscribes a handler *)

\* a faulty variant that validates C23: the blocks are only dequeued
Wireless_Channel_Clear_Queue_leak(S) == [S EXCEPT !.rx_queue = <<>>]

\* Wireless_Channel_Clear_Queue: xQueueReceive and Rdt_FreeReceivedBlock
\* until the rx queue is empty
RECURSIVE Wireless_Channel_Clear_Queue(_)
Wireless_Channel_Clear_Queue(S) ==
    IF S.rx_queue = <<>> THEN S
    ELSE LET msg == Head(S.rx_queue)
             S1 == [S EXCEPT !.rx_queue = Tail(@)]
         IN  Wireless_Channel_Clear_Queue(
                 IF msg.data_ptr # NULL
                 THEN FreeBy(S1, msg.data_ptr, "clear") ELSE S1)

\* Wireless_Channel_Receive_Callback_Register: nothing happens without a
\* callback; else the queue is cleared before the handler is registered
Wireless_Channel_Receive_Callback_Register(S, cb) ==
    IF cb = NULL THEN S ELSE Wireless_Channel_Clear_Queue(S)

\* node B with a block of its peer waiting in the rx queue of W_CHAN_SYSTEM
ClearInit ==
    /\ RdtStart("clear")
    /\ pnode = [n \in Nodes |-> NodeAfterInit(n, TRUE)]
    /\ systx = [n \in Nodes |-> <<>>]
    /\ sysrx = [n \in Nodes |->
                  IF n = NodeB
                  THEN <<[message_type |-> W_MSG_TYPE_SYSTEM_PAIRING_MAC,
                          peer_addr |-> MyMac(ClientNode)]>>
                  ELSE <<>>]
    /\ sysev = [n \in Nodes |-> 0]
    /\ ParamIdle
    /\ FilesIdle
    /\ StatIdle

\* the application at node B calls Wireless_Channel_Clear_Queue(c)
ChannelClear ==
    /\ UNCHANGED <<pairVars, paramVars, fileVars, statVars>>
    /\ hist.clears < MaxClears
    /\ LET S == Wireless_Channel_Clear_Queue(State)
       IN  /\ Commit(S)
           /\ hist' = [S.hist EXCEPT !.clears = @ + 1]
    /\ UNCHANGED <<netAB, netBA, held, link>>

\* the application at node B subscribes a handler to channel c
ChannelSubscribe(cb) ==
    /\ UNCHANGED <<pairVars, paramVars, fileVars, statVars>>
    /\ hist.clears < MaxClears
    /\ LET S == Wireless_Channel_Receive_Callback_Register(State, cb)
       IN  /\ Commit(S)
           /\ hist' = [S.hist EXCEPT !.clears = IF cb = NULL THEN @ ELSE @ + 1]
    /\ UNCHANGED <<netAB, netBA, held, link>>

ClearNext ==
    \/ \E size \in BlockSizes : Rdt_SendBlock(size)
    \/ TimePasses
    \/ ATaskTick
    \/ ATaskRecv
    \/ BTaskRecv
    \/ Rdt_ReceiveBlock
    \/ Rdt_FreeReceivedBlock
    \/ ChannelClear
    \/ \E cb \in {NULL, 1} : ChannelSubscribe(cb)

SpecClear == ClearInit /\ [][ClearNext]_vars

--------------------------------------------------------------------------
(* Pairing: w_connect.c on two nodes and the SYSTEM channel between them *)

PairInit ==
    /\ \E paired \in BOOLEAN : PairInitWith(paired)
    /\ RdtIdle
    /\ ParamIdle
    /\ FilesIdle
    /\ StatIdle

\* the pairing state as one record
PState == [pnode |-> pnode, systx |-> systx, sysrx |-> sysrx, sysev |-> sysev]

PCommit(P) ==
    /\ pnode' = P.pnode
    /\ systx' = P.systx
    /\ sysrx' = P.sysrx
    /\ sysev' = P.sysev
    /\ UNCHANGED <<rdtVars, paramVars, fileVars, statVars>>

SysMsg(type, mac) == [message_type |-> type, peer_addr |-> mac]

\* Rdt_SendBlock(W_CHAN_SYSTEM, ...): fails when tx_queue stays full
SysSend(P, n, msg) ==
    IF Len(P.systx[n]) < SysQueueLen
    THEN [P EXCEPT !.systx[n] = Append(@, msg)]
    ELSE P

\* Wireless_Pairing_Begin; registering the handler clears the rx queue
Wireless_Pairing_Begin(P, n) ==
    [P EXCEPT !.pnode[n] =
                 [@ EXCEPT !.pairing_active = TRUE,
                           !.have_temp_peer = FALSE,
                           !.got_done_from_peer = FALSE,
                           !.temp_peer_mac = ZERO_MAC,
                           !.persisted = ZERO_MAC,
                           !.registered = TRUE,
                           !.task = "run",
                           !.rounds = 0,
                           !.joined = (P.pnode[Other(n)].task = "run")],
              !.sysrx[n] = <<>>]

\* finalize_pairing
finalize_pairing(P, n) ==
    [P EXCEPT !.pnode[n] =
                 [@ EXCEPT !.persisted = P.pnode[n].temp_peer_mac,
                           !.peer = P.pnode[n].temp_peer_mac,
                           !.pairing_active = FALSE,
                           !.registered = FALSE]]

\* revert_pairing
revert_pairing(P, n) ==
    [P EXCEPT !.pnode[n] =
                 [@ EXCEPT !.persisted = ZERO_MAC,
                           !.pairing_active = FALSE,
                           !.registered = FALSE,
                           !.have_temp_peer = FALSE,
                           !.got_done_from_peer = FALSE,
                           !.temp_peer_mac = ZERO_MAC]]

\* wireless_pairing_task, one round of the loop: send PAIRING_MAC, then
\* finalize if a DONE was seen, else sleep
PairingRound(P, n) ==
    LET P1 == SysSend(P, n, SysMsg(W_MSG_TYPE_SYSTEM_PAIRING_MAC, MyMac(n)))
    IN  IF P1.pnode[n].got_done_from_peer
        THEN [finalize_pairing(P1, n) EXCEPT !.pnode[n].task = "ended"]
        ELSE [P1 EXCEPT !.pnode[n].rounds = @ + 1]

\* wireless_pairing_task after the loop
PairingTimeout(P, n) ==
    [revert_pairing(P, n) EXCEPT !.pnode[n].task = "ended"]

\* a faulty variant that validates C32: the newest MAC replaces the stored one
NoteTempPeer_last(P, n, mac) ==
    [P EXCEPT !.pnode[n].temp_peer_mac = mac,
              !.pnode[n].have_temp_peer = TRUE]

\* the temp-peer rule shared by the PAIRING_MAC and PAIRING_DONE branches
NoteTempPeer(P, n, mac) ==
    IF ~P.pnode[n].have_temp_peer
    THEN [P EXCEPT !.pnode[n].temp_peer_mac = mac,
                   !.pnode[n].have_temp_peer = TRUE]
    ELSE P

\* wireless_pairing_receive_cb
wireless_pairing_receive_cb(P, n) ==
    IF ~P.pnode[n].pairing_active THEN P
    ELSE IF P.sysrx[n] = <<>> THEN P
    ELSE LET msg == Head(P.sysrx[n])
             P1 == [P EXCEPT !.sysrx[n] = Tail(@)]
         IN  IF msg.message_type = W_MSG_TYPE_SYSTEM_PAIRING_MAC
             THEN IF msg.peer_addr = ZERO_MAC THEN P1
                  ELSE SysSend(NoteTempPeer(P1, n, msg.peer_addr), n,
                               SysMsg(W_MSG_TYPE_SYSTEM_PAIRING_DONE, MyMac(n)))
             ELSE IF msg.message_type = W_MSG_TYPE_SYSTEM_PAIRING_DONE
             THEN IF msg.peer_addr = ZERO_MAC THEN P1
                  ELSE [NoteTempPeer(P1, n, msg.peer_addr) EXCEPT
                           !.pnode[n].got_done_from_peer = TRUE]
             ELSE P1

\* rdt_send_one_packet sends to s_peer_macaddr and the peer's rdt_recv_cb
\* takes only packets whose source is its own s_peer_macaddr
Accepted(P, n) ==
    /\ P.pnode[n].peer \in {BROADCAST_MAC, MyMac(Other(n))}
    /\ P.pnode[Other(n)].peer = MyMac(n)

\* the engine carries the oldest block of node n's tx_queue: reassembled at
\* the peer it goes to the rx queue (dropped when full) and an event is
\* posted; ignored by the peer it is abandoned after the retries
RdtCarry(P, n) ==
    LET m == Other(n)
        msg == Head(P.systx[n])
        P1 == [P EXCEPT !.systx[n] = Tail(@)]
    IN  IF Accepted(P, n)
        THEN [P1 EXCEPT
                !.sysrx[m] = IF Len(@) < SysQueueLen THEN Append(@, msg) ELSE @,
                !.sysev[m] = IF @ < EventLoopLen THEN @ + 1 ELSE @]
        ELSE P1

\* Wireless_Pairing_Status_Get
Wireless_Pairing_Status_Get(n) ==
    IF pnode[n].pairing_active THEN CON_PAIRING_ACTIVE
    ELSE IF pnode[n].persisted = ZERO_MAC THEN CON_NOT_PAIRED
    ELSE CON_PAIRED

PairBegin(n) ==
    /\ pnode[n].task = "none"
    /\ PCommit(Wireless_Pairing_Begin(PState, n))

PairTaskRound(n) ==
    /\ pnode[n].task = "run"
    /\ pnode[n].rounds < PairingRounds
    /\ PCommit(PairingRound(PState, n))

PairTaskTimeout(n) ==
    /\ pnode[n].task = "run"
    /\ pnode[n].rounds >= PairingRounds
    /\ PCommit(PairingTimeout(PState, n))

\* the event loop task dispatches one WIRELESS event of the SYSTEM channel
PairEvent(n) ==
    /\ sysev[n] > 0
    /\ LET P1 == [PState EXCEPT !.sysev[n] = @ - 1]
       IN  PCommit(IF pnode[n].registered
                   THEN wireless_pairing_receive_cb(P1, n) ELSE P1)

PairCarry(n) ==
    /\ systx[n] # <<>>
    /\ PCommit(RdtCarry(PState, n))

PairNext ==
    \/ \E n \in Nodes : PairBegin(n)
    \/ \E n \in Nodes : PairTaskRound(n)
    \/ \E n \in Nodes : PairTaskTimeout(n)
    \/ \E n \in Nodes : PairEvent(n)
    \/ \E n \in Nodes : PairCarry(n)

SpecPair == PairInit /\ [][PairNext]_vars

--------------------------------------------------------------------------
(* Pairing at one node, with SYSTEM blocks of any type carrying any MAC *)

PairAnyInit ==
    /\ \E paired \in BOOLEAN : PairInitWith(paired)
    /\ RdtStart("pairany")
    /\ ParamIdle
    /\ FilesIdle
    /\ StatIdle

\* the peer_addr of a received w_header_sys_t: all-zero, the peer's address,
\* the address of a third node
PeerMacs == {ZERO_MAC, MyMac(Other(ClientNode)), MyMac(3)}

\* its message_type: PAIRING_MAC, PAIRING_DONE, or a type the handler does
\* not know
SysTypes ==
    {W_MSG_TYPE_SYSTEM_PAIRING_MAC, W_MSG_TYPE_SYSTEM_PAIRING_DONE,
     W_MSG_TYPE_SYSTEM_PAIRING_DONE + 1}

\* the engine reassembled a block of W_CHAN_SYSTEM at the node: it goes to
\* the rx queue (dropped when full) and an event is posted
PairPeerBlock(msg) ==
    /\ Len(hist.sysin) < MaxSysBlocks
    /\ sysrx' = [sysrx EXCEPT ![ClientNode] =
                    IF Len(@) < SysQueueLen THEN Append(@, msg) ELSE @]
    /\ sysev' = [sysev EXCEPT ![ClientNode] =
                    IF @ < EventLoopLen THEN @ + 1 ELSE @]
    /\ hist' = [hist EXCEPT !.sysin =
                   Append(@, [msg |-> msg,
                              active |-> pnode[ClientNode].pairing_active,
                              room |-> Len(sysrx[ClientNode]) < SysQueueLen
                                       /\ sysev[ClientNode] < EventLoopLen])]
    /\ UNCHANGED <<pnode, systx>>
    /\ UNCHANGED <<tx, rx, tx_queue, rx_queue, expired, netAB, netBA, heap,
                   alive, held, link>>
    /\ UNCHANGED <<paramVars, fileVars, statVars>>

PairAnyNext ==
    \/ PairBegin(ClientNode)
    \/ PairTaskRound(ClientNode)
    \/ PairTaskTimeout(ClientNode)
    \/ PairEvent(ClientNode)
    \/ PairCarry(ClientNode)
    \/ \E type \in SysTypes : \E mac \in PeerMacs :
          PairPeerBlock(SysMsg(type, mac))

SpecPairAny == PairAnyInit /\ [][PairAnyNext]_vars

--------------------------------------------------------------------------
(* The parameter service: w_param.c, a client node and a server node *)

\* the tables given to w_param_init: every pairing of a server descriptor
\* with a client descriptor occurs for W_MSG_TYPE_PARAM_TIME
ServerTables ==
    {tb \in [ParamTypes -> DescKinds] :
        tb[W_MSG_TYPE_PARAM_MC_CONFIG] \in {"none", "rw"}}
ClientTables ==
    {tb \in [ParamTypes -> {"none", "rw"}] :
        tb[W_MSG_TYPE_PARAM_MC_CONFIG] = "none"}

ParamInit ==
    /\ \E srv \in ServerTables : \E cli \in ClientTables :
          ParamInitWith([n \in Nodes |-> IF n = ClientNode THEN cli ELSE srv])
    /\ RdtIdle
    /\ PairIdle
    /\ FilesIdle
    /\ StatIdle

\* the parameter service's state as one record
QState == [ptask |-> ptask, pglob |-> pglob, pchan |-> pchan, plog |-> plog]

QCommit(Q) ==
    /\ ptask' = Q.ptask
    /\ pglob' = Q.pglob
    /\ pchan' = Q.pchan
    /\ plog' = Q.plog
    /\ UNCHANGED <<rdtVars, pairVars, fileVars, statVars>>

ParamBlock(type, op, rc, data) ==
    [message_type |-> type, set_or_get |-> op, return_code |-> rc, data |-> data]

\* Rdt_SendBlock(W_CHAN_PARAMS, ...) succeeds while the queue has room; the
\* transport then hands the block to the peer's handler in order
ParamCanSend(Q, n) == Len(Q.pchan[Other(n)]) < ParamQueueLen

ParamSend(Q, n, blk) ==
    IF ParamCanSend(Q, n)
    THEN [Q EXCEPT !.pchan[Other(n)] = Append(@, blk)]
    ELSE Q

\* a reply of the handler: sent, and noted in the log of the handler run
Reply(Q, n, blk) ==
    [ParamSend(Q, n, blk) EXCEPT !.plog.replies = Append(@, blk)]

\* the pending request matches the block's (message_type, set_or_get)
Matches(Q, n, pkt) ==
    /\ Q.pglob[n].in_progress
    /\ Q.pglob[n].req_msg_type = pkt.message_type
    /\ Q.pglob[n].req_set_or_get = pkt.set_or_get

\* write through g_resp_user_size
WriteUserSize(Q, n, len) ==
    IF Q.pglob[n].resp_user_size # NoTask
    THEN [Q EXCEPT !.ptask[Q.pglob[n].resp_user_size].resp_size = len]
    ELSE Q

Prefix(s, k) == [i \in 1 .. k |-> s[i]]
Min(a, b) == IF a < b THEN a ELSE b

\* w_param_process_packet, !desc: error reply to a request (sizeof of the
\* pointer, one byte more than the header), then wake a matching caller
ProcessNoDesc(Q, n, pkt, junk) ==
    LET Q1 == IF pkt.set_or_get \in {W_PARAM_GET, W_PARAM_SET}
              THEN Reply(Q, n, ParamBlock(pkt.message_type, pkt.set_or_get,
                                          1, <<junk>>))
              ELSE Q
    IN  IF Matches(Q1, n, pkt)
        THEN [WriteUserSize(Q1, n, 0) EXCEPT
                 !.pglob[n].resp_return_code = 1,
                 !.pglob[n].sem = 1]
        ELSE Q1

\* w_param_process_packet, GET or SET with a descriptor
ProcessRequest(Q, n, pkt) ==
    LET kind == Q.pglob[n].table[pkt.message_type]
        type == pkt.message_type
    IN  IF pkt.set_or_get = W_PARAM_GET
        THEN IF HasRead(kind)
             THEN Reply(Q, n, ParamBlock(type, W_PARAM_GET, 0,
                                         Q.pglob[n].val[type]))
             ELSE Reply(Q, n, ParamBlock(type, W_PARAM_GET, 2, <<>>))
        ELSE IF HasWrite(kind)
             THEN Reply([Q EXCEPT !.pglob[n].val[type] = pkt.data], n,
                        ParamBlock(type, W_PARAM_SET, 0, <<>>))
             ELSE Reply(Q, n, ParamBlock(type, W_PARAM_SET, 3, <<>>))

\* w_param_process_packet, any other set_or_get: a response
ProcessResponse(Q, n, pkt) ==
    IF Matches(Q, n, pkt)
    THEN LET G == Q.pglob[n]
             Q1 == [Q EXCEPT !.pglob[n].resp_return_code = pkt.return_code]
             Q2 == IF G.resp_user_buf # NoTask /\ G.resp_user_size # NoTask
                   THEN LET len == Min(Len(pkt.data),
                                       Q.ptask[G.resp_user_size].resp_size)
                        IN  [Q1 EXCEPT
                               !.ptask[G.resp_user_buf].resp_data =
                                   Prefix(pkt.data, len),
                               !.ptask[G.resp_user_size].resp_size = len,
                               !.pglob[n].resp_data_len = len]
                   ELSE IF G.resp_user_size # NoTask
                   THEN [Q1 EXCEPT
                           !.ptask[G.resp_user_size].resp_size = Len(pkt.data),
                           !.pglob[n].resp_data_len = Len(pkt.data)]
                   ELSE Q1
         IN  [Q2 EXCEPT !.pglob[n].sem = 1]
    ELSE Q

\* w_param_process_packet
w_param_process_packet(Q, n, pkt, junk) ==
    IF Q.pglob[n].table[pkt.message_type] = "none"
    THEN ProcessNoDesc(Q, n, pkt, junk)
    ELSE IF pkt.set_or_get \in {W_PARAM_GET, W_PARAM_SET}
    THEN ProcessRequest(Q, n, pkt)
    ELSE ProcessResponse(Q, n, pkt)

\* w_param_receive_cb: take the block, process it, free it
w_param_receive_cb(Q, n, junk) ==
    LET pkt == Head(Q.pchan[n])
        Q1 == [Q EXCEPT !.pchan[n] = Tail(@),
                        !.plog = [node |-> n, req |-> pkt, replies |-> <<>>],
                        !.pglob[n].answered =
                            @ \/ (Q.pglob[n].in_progress
                                  /\ Q.pglob[n].req_msg_type = pkt.message_type)]
    IN  w_param_process_packet(Q1, n, pkt, junk)

\* w_param_request_blocking, the "another request is in progress" test;
\* the mutant drops the pending request when it rejects
request_check_reset(Q, t) ==
    IF Q.pglob[ClientNode].in_progress
    THEN [Q EXCEPT !.ptask[t].return_code = RC_BUSY,
                   !.ptask[t].ret = -2,
                   !.ptask[t].returned = TRUE,
                   !.ptask[t].pc = "idle",
                   !.pglob[ClientNode].in_progress = FALSE]
    ELSE [Q EXCEPT !.ptask[t].pc = "set"]

request_check(Q, t) ==
    IF Q.pglob[ClientNode].in_progress
    THEN [Q EXCEPT !.ptask[t].return_code = RC_BUSY,
                   !.ptask[t].ret = -2,
                   !.ptask[t].returned = TRUE,
                   !.ptask[t].pc = "idle"]
    ELSE [Q EXCEPT !.ptask[t].pc = "set"]

\* w_param_request_blocking, recording the pending request
request_set(Q, t) ==
    LET T == Q.ptask[t]
        get == T.set_or_get = W_PARAM_GET
    IN  [Q EXCEPT !.pglob[ClientNode] =
                     [@ EXCEPT !.in_progress = TRUE,
                               !.req_msg_type = T.message_type,
                               !.req_set_or_get = T.set_or_get,
                               !.resp_return_code = RC_INITIAL,
                               !.resp_data_len = 0,
                               !.resp_user_buf = IF get THEN t ELSE NoTask,
                               !.resp_user_size = IF get THEN t ELSE NoTask,
                               !.answered = FALSE],
                  !.ptask[t].pc = "semtake"]

\* xSemaphoreTake(g_response_sem, 0)
request_semtake(Q, t) ==
    [Q EXCEPT !.pglob[ClientNode].sem = 0, !.ptask[t].pc = "send"]

\* w_param_send_request_async and the test of its result
request_send(Q, t) ==
    LET T == Q.ptask[t]
    IN  IF ParamCanSend(Q, ClientNode)
        THEN [ParamSend(Q, ClientNode,
                        ParamBlock(T.message_type, T.set_or_get, 0, T.value))
                 EXCEPT !.ptask[t].pc = "wait"]
        ELSE [Q EXCEPT !.pglob[ClientNode].in_progress = FALSE,
                       !.ptask[t].return_code = RC_SEND_FAILED,
                       !.ptask[t].ret = 1,
                       !.ptask[t].returned = TRUE,
                       !.ptask[t].pc = "idle"]

\* xSemaphoreTake(g_response_sem, wait_ticks) returned pdTRUE
request_woken(Q, t) ==
    [Q EXCEPT !.pglob[ClientNode].sem = 0,
              !.pglob[ClientNode].in_progress = FALSE,
              !.ptask[t].return_code = Q.pglob[ClientNode].resp_return_code,
              !.ptask[t].ret = 0,
              !.ptask[t].returned = TRUE,
              !.ptask[t].pc = "idle"]

\* xSemaphoreTake(g_response_sem, wait_ticks) timed out; the mutant leaves
\* g_request_in_progress set
request_timeout_keep(Q, t) ==
    [Q EXCEPT !.ptask[t].return_code = RC_TIMEOUT,
              !.ptask[t].ret = -3,
              !.ptask[t].returned = TRUE,
              !.ptask[t].pc = "idle"]

request_timeout(Q, t) ==
    [Q EXCEPT !.pglob[ClientNode].in_progress = FALSE,
              !.ptask[t].return_code = RC_TIMEOUT,
              !.ptask[t].ret = -3,
              !.ptask[t].returned = TRUE,
              !.ptask[t].pc = "idle"]

\* w_param_get / w_param_set called by task t
ParamCall(t, type, op) ==
    /\ ptask[t].pc = "idle"
    /\ ptask[t].calls < MaxCalls
    /\ QCommit([QState EXCEPT !.ptask[t] =
                   [@ EXCEPT !.pc = "check",
                             !.message_type = type,
                             !.set_or_get = op,
                             !.value = IF op = W_PARAM_SET THEN SetValue ELSE <<>>,
                             !.resp_data = <<>>,
                             !.resp_size = IF op = W_PARAM_GET THEN RespBufLen ELSE 0,
                             !.returned = FALSE,
                             !.after_timeout = FALSE,
                             !.calls = @ + 1]])

\* history: the call passed the test after another call had timed out
NoteAccepted(Q, t) ==
    IF Q.ptask[t].pc = "set"
    THEN [Q EXCEPT !.ptask[t].after_timeout =
                      \E u \in Tasks \ {t} : /\ Q.ptask[u].returned
                                              /\ Q.ptask[u].ret = -3]
    ELSE Q

ParamCheck(t) ==
    /\ ptask[t].pc = "check"
    /\ QCommit(NoteAccepted(request_check(QState, t), t))

ParamSet(t) ==
    /\ ptask[t].pc = "set"
    /\ QCommit(request_set(QState, t))

ParamSemTake(t) ==
    /\ ptask[t].pc = "semtake"
    /\ QCommit(request_semtake(QState, t))

ParamSendRequest(t) ==
    /\ ptask[t].pc = "send"
    /\ QCommit(request_send(QState, t))

ParamWoken(t) ==
    /\ ptask[t].pc = "wait"
    /\ pglob[ClientNode].sem = 1
    /\ QCommit(request_woken(QState, t))

ParamTimeout(t) ==
    /\ ptask[t].pc = "wait"
    /\ pglob[ClientNode].sem = 0
    /\ QCommit(request_timeout(QState, t))

\* the event loop task of node n runs w_param_receive_cb
ParamReceive(n) ==
    /\ pchan[n] # <<>>
    /\ \E junk \in JunkBytes : QCommit(w_param_receive_cb(QState, n, junk))

ParamNext ==
    \/ \E t \in Tasks, type \in ParamTypes, op \in {W_PARAM_GET, W_PARAM_SET} :
          ParamCall(t, type, op)
    \/ \E t \in Tasks : ParamCheck(t)
    \/ \E t \in Tasks : ParamSet(t)
    \/ \E t \in Tasks : ParamSemTake(t)
    \/ \E t \in Tasks : ParamSendRequest(t)
    \/ \E t \in Tasks : ParamWoken(t)
    \/ \E t \in Tasks : ParamTimeout(t)
    \/ \E n \in Nodes : ParamReceive(n)

SpecParam == ParamInit /\ [][ParamNext]_vars

--------------------------------------------------------------------------
(* The file service: w_files.c, a client node and a server node *)

FilesInit ==
    /\ \E next \in IdStarts : \E exists \in BOOLEAN : FilesInitWith(next, exists)
    /\ RdtIdle
    /\ PairIdle
    /\ ParamIdle
    /\ StatIdle

\* the file service's state as one record
FState == [ftask |-> ftask, fglob |-> fglob, fchan |-> fchan,
           fdisk |-> fdisk, flog |-> flog]

FCommit(F) ==
    /\ ftask' = F.ftask
    /\ fglob' = F.fglob
    /\ fchan' = F.fchan
    /\ fdisk' = F.fdisk
    /\ flog' = F.flog
    /\ UNCHANGED <<rdtVars, pairVars, paramVars, statVars>>

\* a block as the client and the server build it: the header, the path of
\* a request, the data
FileBlock(cmd, rc, id, data) ==
    LET path_len == IF cmd \in FileRequests THEN FilePathLen ELSE 0
    IN  [command |-> cmd, return_code |-> rc, request_id |-> id,
         path_length |-> path_len, data_length |-> Len(data),
         size |-> W_FILES_HEADER_LEN + path_len + Len(data), data |-> data]

\* Rdt_SendBlock(W_CHAN_FILES, ...) succeeds while the queue has room
FileCanSend(F, n) == Len(F.fchan[Other(n)]) < FileQueueLen

FileSend(F, n, blk) ==
    IF FileCanSend(F, n)
    THEN [F EXCEPT !.fchan[Other(n)] = Append(@, blk)]
    ELSE F

\* the call returns: results to the caller
FileReturn(F, t, rc, ret) ==
    [F EXCEPT !.ftask[t].return_code = rc,
              !.ftask[t].ret = ret,
              !.ftask[t].returned = TRUE,
              !.ftask[t].pc = "idle"]

\* release of the slot on the way out: g_request_in_progress = false,
\* xSemaphoreGive(g_mutex)
FileRelease(F) ==
    [F EXCEPT !.fglob[ClientNode].in_progress = FALSE,
              !.fglob[ClientNode].mutex = NoOwner]

\* xSemaphoreTake(g_mutex, 2000 ms) succeeds; the mutant does not wait for
\* the holder
files_take_mutex_any(F, t) ==
    [F EXCEPT !.fglob[ClientNode].mutex = t, !.ftask[t].pc = "check"]

files_take_mutex(F, t) ==
    IF F.fglob[ClientNode].mutex = NoOwner
    THEN [F EXCEPT !.fglob[ClientNode].mutex = t, !.ftask[t].pc = "check"]
    ELSE F

\* xSemaphoreTake(g_mutex, 2000 ms) times out
files_mutex_timeout(F, t) ==
    FileReturn(F, t, W_FILES_ERR_INTERNAL, -2)

\* the test of g_request_in_progress
files_check(F, t) ==
    IF F.fglob[ClientNode].in_progress
    THEN FileReturn([F EXCEPT !.fglob[ClientNode].mutex = NoOwner], t,
                    W_FILES_ERR_INTERNAL, -3)
    ELSE [F EXCEPT !.ftask[t].pc = "set"]

\* g_request_in_progress = true, then the length tests
files_set(F, t) ==
    IF F.ftask[t].toolarge
    THEN FileReturn(FileRelease(F), t, W_FILES_ERR_TOOLARGE, -4)
    ELSE [F EXCEPT !.fglob[ClientNode].in_progress = TRUE,
                   !.ftask[t].pc = "id"]

\* g_current_request_id = g_next_request_id++, zero skipped; the mutant
\* lets the counter reach zero
NextId_wrap(id) == (id + 1) % IdModulus

NextId(id) ==
    IF (id + 1) % IdModulus = 0 THEN 1 ELSE (id + 1) % IdModulus

files_new_id(F, t) ==
    [F EXCEPT !.fglob[ClientNode].current_request_id =
                  F.fglob[ClientNode].next_request_id,
              !.fglob[ClientNode].next_request_id =
                  NextId(F.fglob[ClientNode].next_request_id),
              !.ftask[t].pc = "semclear"]

\* xSemaphoreTake(g_response_sem, 0)
files_semclear(F, t) ==
    [F EXCEPT !.fglob[ClientNode].sem = 0, !.ftask[t].pc = "send"]

\* Rdt_SendBlock of the request and the test of its result
files_send(F, t) ==
    LET T == F.ftask[t]
        id == F.fglob[ClientNode].current_request_id
        data == IF T.command = W_FILES_CMD_WRITE THEN WriteData ELSE <<>>
    IN  IF FileCanSend(F, ClientNode)
        THEN [FileSend(F, ClientNode, FileBlock(T.command, 0, id, data))
                 EXCEPT !.ftask[t].pc = "prep",
                        !.flog.sent = Append(@, id)]
        ELSE FileReturn(FileRelease(F), t, W_FILES_ERR_INTERNAL, -7)

\* after the send: g_resp_return_code = 0xFF, g_resp_data_len = 0, the old
\* g_resp_buffer is freed
files_prepare(F, t) ==
    [F EXCEPT !.fglob[ClientNode].resp_return_code = FILES_RC_INITIAL,
              !.fglob[ClientNode].resp_data_len = 0,
              !.fglob[ClientNode].resp_buffer = <<>>,
              !.ftask[t].pc = "wait"]

\* xSemaphoreTake(g_response_sem, wait_ticks) returned pdTRUE
files_woken(F, t) ==
    LET G == F.fglob[ClientNode]
        T == F.ftask[t]
        to_copy == Min(G.resp_data_len, T.inout_size)
        F1 == IF T.command # W_FILES_CMD_WRITE
              THEN [F EXCEPT !.ftask[t].out_data = Prefix(G.resp_buffer, to_copy),
                             !.ftask[t].inout_size = to_copy]
              ELSE F
    IN  FileReturn(FileRelease([F1 EXCEPT !.fglob[ClientNode].sem = 0]), t,
                   G.resp_return_code, 0)

\* xSemaphoreTake(g_response_sem, wait_ticks) timed out
files_timeout(F, t) ==
    FileReturn(FileRelease(F), t, W_FILES_ERR_INTERNAL, -8)

\* the response handed to Rdt_SendBlock, noted in the log of the handler run
FileReply(F, n, blk) ==
    [FileSend(F, n, blk) EXCEPT !.flog.replies = Append(@, blk)]

\* a faulty variant that validates C24: the lengths are not compared with
\* the size of the block
files_request_check_nosize(pkt) ==
    IF pkt.path_length > W_FILES_MAX_PATH \/ pkt.data_length > W_FILES_MAX_DATA
    THEN W_FILES_ERR_TOOLARGE
    ELSE W_FILES_OK

\* w_files_process_request, the tests of the lengths: return_code before
\* the command is looked at
files_request_check(pkt) ==
    IF W_FILES_HEADER_LEN + pkt.path_length + pkt.data_length > pkt.size
    THEN W_FILES_ERR_INTERNAL
    ELSE IF pkt.path_length > W_FILES_MAX_PATH
            \/ pkt.data_length > W_FILES_MAX_DATA
    THEN W_FILES_ERR_TOOLARGE
    ELSE W_FILES_OK

\* w_files_process_request: the reply carries command + 1 and the request id
w_files_process_request(F, n, pkt) ==
    LET D == F.fdisk[n]
        resp == pkt.command + 1
        rc == files_request_check(pkt)
        F1 == [F EXCEPT !.flog.fsop = TRUE]
        len_to_read == IF pkt.data_length > 0
                       THEN Min(pkt.data_length, W_FILES_MAX_DATA)
                       ELSE W_FILES_MAX_DATA
    IN  IF rc # W_FILES_OK
        THEN FileReply(F, n, FileBlock(resp, rc, pkt.request_id, <<>>))
        ELSE IF pkt.command = W_FILES_CMD_LIST
        THEN FileReply(F1, n, FileBlock(resp, W_FILES_OK, pkt.request_id, ListData))
        ELSE IF pkt.command = W_FILES_CMD_READ
        THEN IF D.exists
             THEN FileReply(F1, n, FileBlock(resp, W_FILES_OK, pkt.request_id,
                                Prefix(D.content, Min(len_to_read, Len(D.content)))))
             ELSE FileReply(F1, n, FileBlock(resp, W_FILES_ERR_NOFILE,
                                            pkt.request_id, <<>>))
        ELSE FileReply([F1 EXCEPT !.fdisk[n] = [exists |-> TRUE,
                                                content |-> pkt.data]],
                       n, FileBlock(resp, W_FILES_OK, pkt.request_id, <<>>))

w_files_process_response(F, n, pkt) ==
    IF ~F.fglob[n].in_progress \/ pkt.request_id # F.fglob[n].current_request_id
    THEN F
    ELSE [F EXCEPT !.fglob[n].resp_return_code = pkt.return_code,
                   !.fglob[n].resp_buffer = pkt.data,
                   !.fglob[n].resp_data_len = Len(pkt.data),
                   !.fglob[n].sem = 1]

\* w_files_handle_incoming_packet
w_files_handle_incoming_packet(F, n, pkt) ==
    IF pkt.command \in FileRequests THEN w_files_process_request(F, n, pkt)
    ELSE IF pkt.command \in FileResponses
    THEN w_files_process_response(F, n, pkt)
    ELSE F

\* w_files_receive_cb: take the block, handle it unless it is shorter than
\* the header, free it
w_files_receive_cb(F, n) ==
    LET pkt == Head(F.fchan[n])
        G == F.fglob[n]
        F1 == [F EXCEPT
                 !.fchan[n] = Tail(@),
                 !.flog.node = n,
                 !.flog.pkt = pkt,
                 !.flog.replies = <<>>,
                 !.flog.fsop = FALSE,
                 !.flog.idle = (pkt.command \in FileResponses /\ ~G.in_progress),
                 !.flog.stale = (/\ pkt.command \in FileResponses
                                 /\ G.in_progress
                                 /\ pkt.request_id # G.current_request_id)]
    IN  IF pkt.size >= W_FILES_HEADER_LEN
        THEN w_files_handle_incoming_packet(F1, n, pkt)
        ELSE F1

\* w_files_list / w_files_read / w_files_write called by task t
FileCall(t, cmd, big) ==
    /\ ftask[t].pc = "idle"
    /\ ftask[t].calls < MaxFileCalls
    /\ FCommit([FState EXCEPT !.ftask[t] =
                   [@ EXCEPT !.pc = "mutex",
                             !.command = cmd,
                             !.toolarge = big,
                             !.out_data = <<>>,
                             !.inout_size = IF cmd = W_FILES_CMD_WRITE
                                            THEN 0 ELSE FileBufLen,
                             !.returned = FALSE,
                             !.calls = @ + 1]])

FileTakeMutex(t) ==
    /\ ftask[t].pc = "mutex"
    /\ files_take_mutex(FState, t) # FState
    /\ FCommit(files_take_mutex(FState, t))

FileMutexTimeout(t) ==
    /\ ftask[t].pc = "mutex"
    /\ fglob[ClientNode].mutex # NoOwner
    /\ FCommit(files_mutex_timeout(FState, t))

FileCheck(t) ==
    /\ ftask[t].pc = "check"
    /\ FCommit(files_check(FState, t))

FileSet(t) ==
    /\ ftask[t].pc = "set"
    /\ FCommit(files_set(FState, t))

FileNewId(t) ==
    /\ ftask[t].pc = "id"
    /\ FCommit(files_new_id(FState, t))

FileSemClear(t) ==
    /\ ftask[t].pc = "semclear"
    /\ FCommit(files_semclear(FState, t))

FileSendRequest(t) ==
    /\ ftask[t].pc = "send"
    /\ FCommit(files_send(FState, t))

FilePrepare(t) ==
    /\ ftask[t].pc = "prep"
    /\ FCommit(files_prepare(FState, t))

FileWoken(t) ==
    /\ ftask[t].pc = "wait"
    /\ fglob[ClientNode].sem = 1
    /\ FCommit(files_woken(FState, t))

FileTimeout(t) ==
    /\ ftask[t].pc = "wait"
    /\ fglob[ClientNode].sem = 0
    /\ FCommit(files_timeout(FState, t))

\* the event loop task of node n runs w_files_receive_cb
FileReceive(n) ==
    /\ fchan[n] # <<>>
    /\ FCommit(w_files_receive_cb(FState, n))

FilesNext ==
    \/ \E t \in Tasks, cmd \in FileRequests, big \in BOOLEAN : FileCall(t, cmd, big)
    \/ \E t \in Tasks : FileTakeMutex(t)
    \/ \E t \in Tasks : FileMutexTimeout(t)
    \/ \E t \in Tasks : FileCheck(t)
    \/ \E t \in Tasks : FileSet(t)
    \/ \E t \in Tasks : FileNewId(t)
    \/ \E t \in Tasks : FileSemClear(t)
    \/ \E t \in Tasks : FileSendRequest(t)
    \/ \E t \in Tasks : FilePrepare(t)
    \/ \E t \in Tasks : FileWoken(t)
    \/ \E t \in Tasks : FileTimeout(t)
    \/ \E n \in Nodes : FileReceive(n)

SpecFiles == FilesInit /\ [][FilesNext]_vars

--------------------------------------------------------------------------
(* The file server and request blocks of a peer of any make *)

ServerNode == Other(ClientNode)

\* the request blocks: whole ones, ones whose header announces more than the
\* block holds, one shorter than the header, one with a path too long
PeerSizes ==
    {W_FILES_HEADER_LEN - 1, W_FILES_HEADER_LEN, W_FILES_HEADER_LEN + 1,
     W_FILES_HEADER_LEN + 2, W_FILES_HEADER_LEN + W_FILES_MAX_PATH + 1}

PeerBlocks ==
    {[command |-> cmd, return_code |-> 0, request_id |-> id,
      path_length |-> pl, data_length |-> dl, size |-> sz,
      data |-> IF W_FILES_HEADER_LEN + pl + dl <= sz
               THEN [i \in 1..dl |-> WriteData[1]] ELSE <<>>] :
        cmd \in FileRequests, id \in {1, 2},
        pl \in {0, 1, W_FILES_MAX_PATH + 1}, dl \in {0, 1}, sz \in PeerSizes}

FileReqInit ==
    /\ \E exists \in BOOLEAN : FilesInitWith(1, exists)
    /\ RdtIdle
    /\ PairIdle
    /\ ParamIdle
    /\ StatIdle

\* a request block of the peer reaches the rx queue of the server
FilePeerRequest(pkt) ==
    /\ flog.peer < MaxPeerBlocks
    /\ Len(fchan[ServerNode]) < FileQueueLen
    /\ FCommit([FState EXCEPT !.fchan[ServerNode] = Append(@, pkt),
                              !.flog.peer = @ + 1])

FileReqNext ==
    \/ \E pkt \in PeerBlocks : FilePeerRequest(pkt)
    \/ \E n \in Nodes : FileReceive(n)

SpecFileReq == FileReqInit /\ [][FileReqNext]_vars

--------------------------------------------------------------------------
(* Claims about the transport *)

\* C1 (round trip): once nothing is in flight and the sender is idle with an
\* empty tx_queue, and no block was abandoned for lack of an answer, every
\* block the sender released on an ASK was reassembled at node B with the
\* same size and bytes (a block dropped for a full rx_queue counts as
\* reassembled).
C1_RoundTrip ==
    (Settled /\ ~tx.sending /\ tx_queue = <<>> /\ "abandon" \notin hist.frees)
        => \A b \in hist.acked : b \in hist.reasm

\* C2 (selective repeat, S2): when the only loss is the first DATA packet
\* with seq_num 2 and everything sent since has been processed, the block
\* is acknowledged and reassembled without waiting for RDT_ACK_TIMEOUT_MS.
C2_SelectiveRepeat ==
    (link = "s2" /\ hist.nlost = 1 /\ Settled)
        => \E s \in S2Sizes : /\ BlockData(1, s) \in hist.acked
                              /\ BlockData(1, s) \in hist.reasm

\* C3 (retry bound): on a link that loses every packet a block leaves the
\* Sending state only with retry_count = RDT_MAX_RETRY_COUNT and its buffer
\* freed by that step, once; every block taken from tx_queue is abandoned
\* in the end and every queued block is taken.
C3_RetryBound ==
    /\ [][(tx.sending /\ ~tx'.sending)
            => /\ tx'.retry_count = RDT_MAX_RETRY_COUNT
               /\ tx.tx_buffer \in alive
               /\ tx.tx_buffer \notin alive'
               /\ tx'.tx_buffer = NULL
               /\ ~hist'.doubleFree]_vars
    /\ \A p \in Ptrs :
          (tx.sending /\ tx.tx_buffer = p) ~> (~tx.sending /\ p \notin alive)
    /\ \A p \in Ptrs :
          (\E i \in DOMAIN tx_queue : tx_queue[i].data_ptr = p)
              ~> (tx.sending /\ tx.tx_buffer = p)

\* a block was abandoned on the dead link and the next one is being sent
C3_Witness ==
    /\ link = "down"
    /\ "abandon" \in hist.frees
    /\ hist.acked = {}
    /\ tx.sending
    /\ tx.retry_count > 0

\* every pointer to a block buffer the program holds, holder by holder
Holders ==
    [i \in 1..Len(tx_queue) |-> tx_queue[i].data_ptr]
    \o (IF tx.tx_buffer # NULL THEN <<tx.tx_buffer>> ELSE <<>>)
    \o (IF rx.rx_buffer # NULL THEN <<rx.rx_buffer>> ELSE <<>>)
    \o [i \in 1..Len(rx_queue) |-> rx_queue[i].data_ptr]
    \o (IF held.data_ptr # NULL THEN <<held.data_ptr>> ELSE <<>>)

\* C4 (buffers): no buffer is freed twice or used after it was freed, no
\* two holders hold the same buffer, and the live buffers are exactly the
\* ones some holder holds.
C4_FreedExactlyOnce ==
    /\ ~hist.doubleFree
    /\ ~hist.useAfterFree
    /\ Cardinality({Holders[i] : i \in DOMAIN Holders}) = Len(Holders)
    /\ {Holders[i] : i \in DOMAIN Holders} = alive

\* every way of freeing has happened and nothing is left allocated
C4_Witness ==
    /\ hist.frees = {"ask", "abandon", "begin", "full", "consumer"}
    /\ alive = {}


\* the packet node B's rdt_task takes next is a DATA packet of the current
\* reassembly whose seq_num is already marked in packet_received_map
DuplicateData ==
    /\ netAB # <<>>
    /\ Head(netAB).service_code = RDT_MSG_DATA
    /\ rx.receiving
    /\ Head(netAB).seq_num < rx.total_packets
    /\ rx.packet_received_map[Head(netAB).seq_num]

\* C16 (duplicate idempotence): processing a DATA packet whose seq_num was
\* already received in this reassembly leaves rx_buffer and its bytes,
\* packet_received_map and packets_received unchanged, and in every state
\* packets_received <= total_packets.
C16_DuplicateIdempotence ==
    /\ [](rx.packets_received <= rx.total_packets)
    /\ [][(DuplicateData /\ netAB' = Tail(netAB))
             => /\ rx' = rx
                /\ heap'[rx.rx_buffer] = heap[rx.rx_buffer]]_vars

\* a DATA packet that was received before is about to be processed a second
\* time, the block not yet complete
C16_Witness ==
    /\ DuplicateData
    /\ Head(netAB).seq_num >= 1
    /\ rx.packets_received < rx.total_packets
    /\ rx.rx_buffer \in alive
    /\ heap[rx.rx_buffer] # Zeros(rx.total_size)

\* the crc field of pkt differs from the CRC computed over its other bytes
BadCrc(pkt) ==
    rdt_calc_crc(pkt.seq_num, pkt.service_code, pkt.payload) # pkt.crc

\* a DATA or END packet was flipped on its way to node B
FlippedDataOrEnd ==
    /\ Len(hist.corrupted) = 2
    /\ hist.corrupted[1] \in {RDT_MSG_DATA, RDT_MSG_END}

\* node B has sent a NACK that names seq
NackNames(seq) ==
    \E i \in DOMAIN netBA :
        /\ netBA[i].service_code = RDT_MSG_NACK
        /\ \E j \in DOMAIN NackList(netBA[i].payload, 0) :
              NackList(netBA[i].payload, 0)[j] = seq

\* C17 (CRC rejection): a packet whose crc field differs from the computed
\* CRC is dropped by the rdt_task that takes it: at node B nothing changes
\* and nothing is sent; at node A the step is the one of a tick without a
\* packet.  A flipped DATA or END packet is dropped and then followed by a
\* NACK that names its seq_num or by a restart of the block.
C17_CrcRejection ==
    /\ [][(netAB # <<>> /\ BadCrc(Head(netAB)) /\ netAB' = Tail(netAB))
             => /\ rx' = rx
                /\ rx_queue' = rx_queue
                /\ tx' = tx
                /\ tx_queue' = tx_queue
                /\ heap' = heap
                /\ alive' = alive
                /\ netBA' = netBA]_vars
    /\ [][(netBA # <<>> /\ BadCrc(Head(netBA)) /\ netBA' = Tail(netBA))
             => /\ tx' = rdt_process_tx_channel(State).tx
                /\ tx_queue' = rdt_process_tx_channel(State).tx_queue
                /\ rx' = rx
                /\ rx_queue' = rx_queue
                /\ heap' = rdt_process_tx_channel(State).heap
                /\ alive' = rdt_process_tx_channel(State).alive
                /\ netAB' = netAB \o TxEmits(State)]_vars
    /\ (FlippedDataOrEnd /\ ~hist.crcdrop)
          ~> /\ FlippedDataOrEnd
             /\ hist.crcdrop
             /\ \/ NackNames(hist.corrupted[2])
                \/ tx.sending /\ tx.retry_count > 0

\* a flipped DATA packet was dropped and node B's NACK names its seq_num
C17_Witness ==
    /\ FlippedDataOrEnd
    /\ hist.crcdrop
    /\ hist.corrupted[1] = RDT_MSG_DATA
    /\ NackNames(hist.corrupted[2])
    /\ rx.receiving
    /\ ~rx.packet_received_map[hist.corrupted[2]]

\* C18 (peer filter): a datagram whose source address differs from node B's
\* s_peer_macaddr is not queued for rdt_task and changes neither the
\* reassembly state, nor the transmit state, nor the queues, nor the link
\* statistics.
C18_PeerFilter ==
    [][(/\ Len(hist'.dgram) = Len(hist.dgram) + 1
        /\ hist'.dgram[Len(hist'.dgram)] # pnode[NodeB].peer)
          => /\ netAB' = netAB
             /\ netBA' = netBA
             /\ rx' = rx
             /\ tx' = tx
             /\ rx_queue' = rx_queue
             /\ tx_queue' = tx_queue
             /\ heap' = heap
             /\ rssi' = rssi]_vars

\* the peer's datagrams were counted and queued, and the last datagram, from
\* another station, arrived while a block was being reassembled
C18_Witness ==
    /\ pnode[NodeB].peer = MyMac(ClientNode)
    /\ Len(hist.dgram) >= 2
    /\ hist.dgram[Len(hist.dgram)] # pnode[NodeB].peer
    /\ rssi.rssi # 0
    /\ rssi.total_packets_sent > 0
    /\ rx.receiving

\* <<service_code, seq_num>> of the packets of a sequence
Kinds(pkts) ==
    [i \in DOMAIN pkts |-> <<pkts[i].service_code, pkts[i].seq_num>>]

\* s is the beginning of t
IsPrefix(s, t) == Len(s) <= Len(t) /\ s = SubSeq(t, 1, Len(s))

\* BEGIN, DATA 1..n, END n + 1 and ASK for the k-th block of S1Size bytes
WireOfBlock(k, n) ==
    <<MkPacket(0, RDT_MSG_BEGIN, SizeArr(S1Size))>>
    \o [i \in 1..n |->
          MkPacket(i, RDT_MSG_DATA, DataChunk(BlockData(k, S1Size), S1Size, i))]
    \o <<MkPacket(n + 1, RDT_MSG_END, <<>>), MkPacket(0, RDT_MSG_ASK, <<>>)>>

\* the same for the blocks k, k + 1, ... MaxBlocks, one after the other
RECURSIVE WireOfBlocks(_, _)
WireOfBlocks(k, n) ==
    IF k > MaxBlocks THEN <<>> ELSE WireOfBlock(k, n) \o WireOfBlocks(k + 1, n)

\* the blocks that came out of the reassembly and are still at node B
AtReceiver ==
    rx_queue \o (IF held # NoItem THEN <<held>> ELSE <<>>)

\* C19 as stated (happy path S1): the packets of the first block on the wire
\* are BEGIN, one DATA packet per full payload of the block (seq 1..3 for
\* 600 bytes), END with the next seq_num, then ASK.
C19_HappyPathAsStated ==
    LET n == S1Size \div RDT_PACKET_PAYLOAD_LEN
        first == Kinds(WireOfBlock(1, n))
        seen == Kinds(hist.wire)
    IN  IsPrefix(seen, first) \/ IsPrefix(first, seen)

\* C19 amended (happy path S1): the packets on the wire are BEGIN with the
\* block size, one DATA packet per started payload of the block (seq 1..4
\* for 600 bytes, the last one carrying the rest), END with the next
\* seq_num, then ASK, block after block and nothing else; once the ASK of
\* the first block is on the wire that block was reassembled, and every
\* block at the receiver has the size and the bytes of the block sent.
C19_HappyPath ==
    LET n == (S1Size + RDT_PACKET_PAYLOAD_LEN - 1) \div RDT_PACKET_PAYLOAD_LEN
        all == WireOfBlocks(1, n)
    IN  /\ IsPrefix(hist.wire, all)
        /\ Len(hist.wire) >= n + 3 => BlockData(1, S1Size) \in hist.reasm
        /\ \A i \in DOMAIN AtReceiver :
              /\ AtReceiver[i].data_size = S1Size
              /\ AtReceiver[i].data_ptr \in alive
              /\ \E k \in 1..MaxBlocks :
                    heap[AtReceiver[i].data_ptr] = BlockData(k, S1Size)

\* the first block went over the wire, was acknowledged and is in the
\* consumer's hands
C19_Witness ==
    /\ link = "s1"
    /\ Len(hist.wire) >= TotalPackets(S1Size) + 1
    /\ hist.wire[TotalPackets(S1Size) + 1].service_code = RDT_MSG_ASK
    /\ hist.wire[TotalPackets(S1Size) - 1].service_code = RDT_MSG_DATA
    /\ held # NoItem
    /\ heap[held.data_ptr] = BlockData(1, S1Size)
    /\ BlockData(1, S1Size) \in hist.acked

\* C20 as stated (all-loss then success, S3): the sender's retry_count
\* never exceeds the number of retransmissions that were lost entirely (2).
C20_RetryCountAsStated ==
    tx.retry_count <= S3LostRetries

\* C20 amended (all-loss then success, S3): with the first transmission and
\* the first two retransmissions lost entirely, the block is sent again
\* until the third retransmission arrives: it is reassembled with the bytes
\* sent and acknowledged, and retry_count reaches 3 and no higher.
C20_AllLossThenSuccess ==
    /\ [](tx.retry_count <= S3LostRetries + 1)
    /\ [](\A b \in hist.reasm :
            \/ b \in hist.acked
            \/ tx.sending /\ tx.tx_buffer \in alive /\ b = heap[tx.tx_buffer])
    /\ [][(tx.sending /\ ~tx'.sending) => tx.retry_count = S3LostRetries + 1]_vars
    /\ \A s \in BlockSizes :
          (tx.sending /\ tx.current_size = s /\ hist.nsent = 1)
              ~> (BlockData(1, s) \in hist.reasm /\ BlockData(1, s) \in hist.acked)

\* the first block arrived with its third retransmission and was taken by
\* the consumer
C20_Witness ==
    /\ link = "s3"
    /\ tx.retry_count = S3LostRetries + 1
    /\ hist.reasm # {}
    /\ hist.reasm = hist.acked
    /\ held # NoItem
    /\ \E s \in BlockSizes : heap[held.data_ptr] = BlockData(1, s)

\* the packets rdt_process_tx_channel emitted for the block in transmission
LoopEmits == SelectSeq(hist.emit, LAMBDA e : e.by = "loop")

\* C21 as stated (outbound ordering): of the packets emitted for a block,
\* BEGIN is the first, no packet follows an END, and the DATA packets are
\* in ascending seq_num, retransmissions and restarts included.
C21_OrderingAsStated ==
    LET e == hist.emit
    IN  /\ e # <<>> => e[1].service_code = RDT_MSG_BEGIN
        /\ \A i \in DOMAIN e : i < Len(e) => e[i].service_code # RDT_MSG_END
        /\ \A i, j \in DOMAIN e :
              (i < j /\ e[i].service_code = RDT_MSG_DATA
                     /\ e[j].service_code = RDT_MSG_DATA)
                  => e[i].seq_num <= e[j].seq_num

\* C21 amended (outbound ordering): the first packet emitted for a block is
\* BEGIN; in every pass of rdt_process_tx_channel over the block (the first
\* and each timeout restart) BEGIN with seq_num 0 comes first, the DATA
\* packets follow with seq_num 1, 2, ... and END with seq_num
\* total_packets - 1 is the last of the pass.  The packets retransmitted on
\* a NACK are emitted when the NACK is processed and stand outside this
\* order (they follow the END of the pass that caused the NACK).
C21_PassOrdering ==
    LET e == LoopEmits
    IN  /\ hist.emit # <<>> =>
              /\ hist.emit[1].by = "loop"
              /\ hist.emit[1].service_code = RDT_MSG_BEGIN
        /\ \A i \in DOMAIN e :
              \/ e[i].service_code = RDT_MSG_BEGIN /\ e[i].seq_num = 0
              \/ /\ i > 1
                 /\ e[i - 1].service_code # RDT_MSG_END
                 /\ e[i].seq_num = e[i - 1].seq_num + 1
                 /\ e[i].service_code =
                        IF e[i].seq_num = tx.total_packets - 1
                        THEN RDT_MSG_END ELSE RDT_MSG_DATA

\* a block with two DATA packets saw a NACK-triggered retransmission after
\* its END and then a timeout restart that ran to its END
C21_Witness ==
    LET e == hist.emit
    IN  /\ link = "ord"
        /\ tx.total_packets = 4
        /\ \E i, j, k \in DOMAIN e :
              /\ i < j /\ j < k
              /\ e[i].service_code = RDT_MSG_END
              /\ e[j].by = "nack" /\ e[j].service_code = RDT_MSG_DATA
              /\ e[k].by = "loop" /\ e[k].service_code = RDT_MSG_BEGIN
        /\ e[Len(e)].service_code = RDT_MSG_END

\* C22 (delivery ordering): the blocks Rdt_ReceiveBlock returned are, in
\* order, the first of the blocks put in rx_queue by their completing END
\* packets; and a block is put in rx_queue only by an END processed while
\* every other packet of the block is marked in packet_received_map, as the
\* reassembly buffer of total_size bytes.
C22_DeliveryOrder ==
    /\ [](IsPrefix(hist.taken, hist.queued))
    /\ [][Len(rx_queue') > Len(rx_queue) =>
            /\ rx.receiving
            /\ netAB # <<>>
            /\ Head(netAB).service_code = RDT_MSG_END
            /\ DOMAIN rx.packet_received_map = 0..(rx.total_packets - 1)
            /\ \A i \in DOMAIN rx.packet_received_map :
                  i # Head(netAB).seq_num => rx.packet_received_map[i]
            /\ Len(heap[rx.rx_buffer]) = rx.total_size
            /\ rx_queue' = Append(rx_queue, [data_ptr |-> rx.rx_buffer,
                                             data_size |-> rx.total_size])]_vars

\* two different blocks waited in rx_queue and Rdt_ReceiveBlock returned
\* the first
C22_Witness ==
    /\ link = "ord"
    /\ Len(hist.queued) >= 2
    /\ hist.queued[1] # hist.queued[2]
    /\ hist.taken = <<hist.queued[1]>>
    /\ held # NoItem
    /\ rx_queue # <<>>
    /\ heap[rx_queue[1].data_ptr] = hist.queued[2]

\* C23 (clearing a channel queue): a call of Wireless_Channel_Clear_Queue(c),
\* also the one made by subscribing a handler, leaves the rx queue of c
\* empty and has freed every block that was pending in it, each once and
\* nothing else; the reassembly in progress on c, its tx queue and tx state,
\* the packets in flight and the queues of the other channels are as before.
C23_ClearQueue ==
    [][hist'.clears # hist.clears =>
         LET ps == {rx_queue[i].data_ptr : i \in DOMAIN rx_queue}
         IN  /\ rx_queue' = <<>>
             /\ Cardinality(ps) = Len(rx_queue)
             /\ ps \subseteq alive
             /\ alive' = alive \ ps
             /\ hist'.doubleFree = hist.doubleFree
             /\ \A p \in Ptrs \ ps : heap'[p] = heap[p]
             /\ rx' = rx
             /\ tx' = tx
             /\ tx_queue' = tx_queue
             /\ expired' = expired
             /\ netAB' = netAB
             /\ netBA' = netBA
             /\ held' = held
             /\ UNCHANGED <<systx, sysrx, sysev, pchan, fchan>>]_vars

\* the queue was cleared of a block while the next block was in reassembly
\* and in transmission and a block waited on W_CHAN_SYSTEM
C23_Witness ==
    /\ link = "clear"
    /\ hist.clears > 0
    /\ "clear" \in hist.frees
    /\ rx.receiving
    /\ rx.rx_buffer \in alive
    /\ tx.sending
    /\ sysrx[NodeB] # <<>>

\* ceil(size / RDT_PACKET_PAYLOAD_LEN): the least number of payloads that
\* hold size bytes
CeilDiv(size) ==
    CHOOSE n \in 0..size :
        /\ n * RDT_PACKET_PAYLOAD_LEN >= size
        /\ (n - 1) * RDT_PACKET_PAYLOAD_LEN < size

\* C25 (packet count): a block of any size in 1..max_block_size is started
\* by the sender with total_packets = ceil(size / payload length) + 2 and a
\* BEGIN that carries the size, and the receiver that processes a BEGIN
\* carrying this size takes it as total_size and computes the same
\* total_packets; so END has seq_num ceil(size / payload length) + 1 for
\* both and the DATA packets are those in between.
C25_PacketCount ==
    /\ [](tx.sending =>
            /\ tx.current_size \in AllSizes
            /\ tx.total_packets = CeilDiv(tx.current_size) + 2)
    /\ [](rx.receiving =>
            /\ rx.total_size \in AllSizes
            /\ rx.total_packets = CeilDiv(rx.total_size) + 2)
    /\ [](\A i \in DOMAIN hist.emit :
            hist.emit[i].service_code = RDT_MSG_END
                <=> hist.emit[i].seq_num = CeilDiv(tx.current_size) + 1)
    /\ [][(~tx.sending /\ tx'.sending) =>
            /\ tx'.current_size = Head(tx_queue).data_size
            /\ tx'.total_packets = CeilDiv(tx'.current_size) + 2
            /\ \A i \in DOMAIN netAB' :
                  (i > Len(netAB) - 1 /\ netAB'[i].service_code = RDT_MSG_BEGIN)
                      => netAB'[i].payload = PadPayload(SizeArr(tx'.current_size))]_vars
    /\ [][(/\ netAB # <<>>
           /\ netAB' = Tail(netAB)
           /\ Head(netAB).service_code = RDT_MSG_BEGIN)
             => \E s \in AllSizes :
                   /\ Head(netAB).payload = PadPayload(SizeArr(s))
                   /\ rx'.receiving
                   /\ rx'.total_size = s
                   /\ rx'.total_packets = CeilDiv(s) + 2]_vars

\* sender and receiver are at work on a block of one full payload and a
\* rest, with the same count of four packets
C25_Witness ==
    /\ link = "ord"
    /\ tx.sending
    /\ rx.receiving
    /\ tx.current_size = RDT_PACKET_PAYLOAD_LEN + 1
    /\ rx.total_size = tx.current_size
    /\ tx.total_packets = 4
    /\ rx.total_packets = 4

\* C26 (idle channels hold no buffers): while rx.receiving is false the
\* channel has no rx_buffer and no packet_received_map, and while tx.sending
\* is false it has no tx_buffer and no packet_sent_map.
C26_IdleNoBuffers ==
    /\ ~rx.receiving => rx.rx_buffer = NULL /\ rx.packet_received_map = <<>>
    /\ ~tx.sending => tx.tx_buffer = NULL /\ tx.packet_sent_map = <<>>

\* both directions are idle after a block was acknowledged, a block was
\* abandoned and a block was dropped at the full rx queue, which still holds
\* a block
C26_Witness ==
    /\ link = "lossy"
    /\ ~rx.receiving
    /\ ~tx.sending
    /\ {"ask", "abandon", "full"} \subseteq hist.frees
    /\ rx_queue # <<>>
    /\ rx_queue[1].data_ptr \in alive

\* node B's rdt_task takes an END that completes the block in reassembly
CompletingEnd ==
    /\ netAB # <<>>
    /\ netAB' = Tail(netAB)
    /\ Head(netAB).service_code = RDT_MSG_END
    /\ Head(netAB).crc = rdt_calc_crc(Head(netAB).seq_num, RDT_MSG_END,
                                      Head(netAB).payload)
    /\ rx.receiving
    /\ Head(netAB).seq_num = rx.total_packets - 1
    /\ rx.packets_received
          + (IF rx.packet_received_map[Head(netAB).seq_num] THEN 0 ELSE 1)
          = rx.total_packets

\* C27 (receive backpressure): when an END completes a block while rx_queue
\* is full, the block's buffer is freed (once, and nothing else is), the
\* queue keeps its blocks in their order, the channel leaves the receiving
\* state without buffer or map, and the receiver answers with ASK or
\* nothing, never with a NACK: it keeps nothing of the block to retry.
C27_Backpressure ==
    [][(CompletingEnd /\ Len(rx_queue) = RxQueueLen) =>
          /\ rx_queue' = rx_queue
          /\ rx.rx_buffer \in alive
          /\ alive' = alive \ {rx.rx_buffer}
          /\ hist'.doubleFree = hist.doubleFree
          /\ \A i \in DOMAIN rx_queue : heap'[rx_queue[i].data_ptr]
                                           = heap[rx_queue[i].data_ptr]
          /\ ~rx'.receiving
          /\ rx'.rx_buffer = NULL
          /\ rx'.packet_received_map = <<>>
          /\ \/ netBA' = netBA
             \/ netBA' = Append(netBA, MkPacket(0, RDT_MSG_ASK, <<>>))
          /\ held' = held]_vars

\* a block was dropped at the full rx queue, which holds its blocks still
C27_Witness ==
    /\ link = "ord"
    /\ "full" \in hist.frees
    /\ Len(rx_queue) = RxQueueLen
    /\ ~rx.receiving
    /\ \A i \in DOMAIN rx_queue : rx_queue[i].data_ptr \in alive

\* node A's rdt_task runs rdt_process_tx_channel on a transmission in
\* progress: after a timeout of its event queue, or after a packet that is
\* not a valid ASK
TickWhileSending ==
    /\ tx.sending
    /\ \/ netBA' = netBA /\ (tx' # tx \/ expired' # expired)
       \/ /\ netBA # <<>>
          /\ netBA' = Tail(netBA)
          /\ ~(CrcOk(Head(netBA)) /\ Head(netBA).service_code = RDT_MSG_ASK)

\* the packets with seq_num from..(total - 1) as the send loop tags them
PassFrom(from, total) ==
    [i \in 1..(total - from) |->
        [seq_num |-> from + i - 1,
         service_code |-> IF from + i - 1 = 0 THEN RDT_MSG_BEGIN
                          ELSE IF from + i - 1 = total - 1 THEN RDT_MSG_END
                          ELSE RDT_MSG_DATA,
         by |-> "loop"]]

\* C28 (timeout restart): a tick of a sending channel whose ACK timeout has
\* expired adds exactly one to retry_count; if that is below
\* RDT_MAX_RETRY_COUNT the channel keeps sending the same live tx_buffer,
\* packet_sent_map has only index 0 set, the send loop emitted BEGIN with
\* seq_num 0 and nothing else, next_seq_to_send is 1 and the timeout runs
\* anew; the following tick emits seq_num 1 up to the END in ascending order.
C28_TimeoutRestart ==
    /\ [][(TickWhileSending /\ expired) =>
            /\ tx'.retry_count = tx.retry_count + 1
            /\ tx'.retry_count < RDT_MAX_RETRY_COUNT =>
                  /\ tx'.sending
                  /\ tx'.tx_buffer = tx.tx_buffer
                  /\ tx.tx_buffer \in alive'
                  /\ heap'[tx.tx_buffer] = heap[tx.tx_buffer]
                  /\ tx'.current_size = tx.current_size
                  /\ tx'.total_packets = tx.total_packets
                  /\ tx'.packet_sent_map = FreshSentMap(tx.total_packets)
                  /\ tx'.next_seq_to_send = 1
                  /\ ~expired'
                  /\ LoopEmits' = LoopEmits \o PassFrom(0, 1)]_vars
    /\ [][(/\ TickWhileSending
           /\ ~expired
           /\ tx.retry_count > 0
           /\ tx.next_seq_to_send = 1) =>
            /\ tx'.retry_count = tx.retry_count
            /\ tx'.tx_buffer = tx.tx_buffer
            /\ tx'.next_seq_to_send = tx.total_packets
            /\ \A i \in DOMAIN tx'.packet_sent_map : tx'.packet_sent_map[i]
            /\ LoopEmits' = LoopEmits \o PassFrom(1, tx.total_packets)]_vars

\* a block with DATA packets went out twice: once, and again after a timeout
C28_Witness ==
    /\ link = "ord"
    /\ tx.sending
    /\ tx.retry_count = 1
    /\ tx.total_packets >= 3
    /\ tx.next_seq_to_send = tx.total_packets
    /\ LoopEmits = PassFrom(0, tx.total_packets) \o PassFrom(0, tx.total_packets)

\* node A's rdt_task takes a NACK with a good crc
NackStep ==
    /\ netBA # <<>>
    /\ netBA' = Tail(netBA)
    /\ CrcOk(Head(netBA))
    /\ Head(netBA).service_code = RDT_MSG_NACK

\* the bytes the application put in the block now in transmission
TxOriginal == BlockData(hist.nsent - Len(tx_queue), tx.current_size)

\* C29 (NACK handling): when rdt_task takes a NACK while sending, the
\* handler emits exactly the packets listed before the 0xFFFF terminator
\* with seq_num below total_packets, in the order listed (BEGIN for 0, END
\* for the last, DATA otherwise, with the bytes of the original block), and
\* writes nothing to the channel: what follows in the same step is the tick
\* of rdt_process_tx_channel on the untouched state, so that with nothing
\* left to send and no timeout tx is unchanged.  A NACK taken while idle
\* emits nothing and changes nothing.
C29_NackHandling ==
    [][NackStep =>
         LET listed == SelectSeq(NackList(Head(netBA).payload, 0),
                                 LAMBDA q : q < tx.total_packets)
             tick == rdt_process_tx_channel(State)
         IN  /\ tx.sending =>
                  hist'.wire =
                      [i \in 1..Len(listed) |->
                          TxPacket(tx, TxOriginal, listed[i])]
                      \o TxEmits(State)
             /\ ~tx.sending => hist'.wire = TxEmits(State)
             /\ (~tx.sending /\ tx_queue = <<>>) =>
                  hist'.wire = <<>> /\ netAB' = netAB
             /\ tx' = tick.tx
             /\ expired' = tick.expired
             /\ tx_queue' = tick.tx_queue
             /\ alive' = tick.alive
             /\ heap' = tick.heap
             /\ (/\ tx.sending \/ tx_queue = <<>>
                 /\ ~expired
                 /\ tx.next_seq_to_send >= tx.total_packets) => tx' = tx]_vars

\* a NACK listing BEGIN and a DATA packet was answered with the two, the
\* transmission going on as it was
C29_Witness ==
    /\ link = "nack"
    /\ hist.nacks > 0
    /\ tx.sending
    /\ tx.retry_count = 0
    /\ tx.next_seq_to_send = tx.total_packets
    /\ tx.tx_buffer \in alive
    /\ Len(hist.wire) = 2
    /\ hist.wire[1] = MkPacket(0, RDT_MSG_BEGIN, SizeArr(tx.current_size))
    /\ hist.wire[2].service_code = RDT_MSG_DATA
    /\ hist.wire[2].seq_num = MaxDataPackets
    /\ hist.wire[2].payload =
           PadPayload(DataChunk(heap[tx.tx_buffer], tx.current_size,
                                MaxDataPackets))

\* node B's rdt_task takes a BEGIN with a good crc and seq_num 0
BeginStep ==
    /\ netAB # <<>>
    /\ netAB' = Tail(netAB)
    /\ CrcOk(Head(netAB))
    /\ Head(netAB).service_code = RDT_MSG_BEGIN
    /\ Head(netAB).seq_num = 0

\* the buffers held outside the reassembly: queued, taken by the
\* application, or with the sender
HeldElsewhere ==
    {rx_queue[i].data_ptr : i \in DOMAIN rx_queue}
    \cup {tx_queue[i].data_ptr : i \in DOMAIN tx_queue}
    \cup (IF held # NoItem THEN {held.data_ptr} ELSE {})
    \cup (IF tx.sending THEN {tx.tx_buffer} ELSE {})

\* C30 (BEGIN handling): a valid BEGIN, taken when idle or in the middle of
\* a reassembly, frees the buffer of the reassembly in progress (once) and
\* starts a fresh one: receiving is true, total_size is the size announced,
\* rx_buffer is a newly allocated buffer of total_size zero bytes,
\* packet_received_map has total_packets entries of which only index 0 is
\* set, packets_received is 1; the rx queue and the blocks in it stay as
\* they are, and nothing is answered.
C30_BeginHandling ==
    [][BeginStep =>
         LET size == BeginSize(Head(netAB).payload)
             total == CeilDiv(size) + 2
             old == IF rx.rx_buffer = NULL THEN {} ELSE {rx.rx_buffer}
         IN  /\ rx'.receiving
             /\ rx'.total_size = size
             /\ rx'.total_packets = total
             /\ rx'.packets_received = 1
             /\ rx'.packet_received_map = [i \in 0..(total - 1) |-> i = 0]
             /\ old \subseteq alive
             /\ hist'.doubleFree = hist.doubleFree
             /\ rx'.rx_buffer \in Ptrs \ (alive \ old)
             /\ alive' = (alive \ old) \cup {rx'.rx_buffer}
             /\ heap'[rx'.rx_buffer] = Zeros(size)
             /\ rx_queue' = rx_queue
             /\ held' = held
             /\ \A p \in HeldElsewhere : p \in alive' /\ heap'[p] = heap[p]
             /\ netBA' = netBA]_vars

\* a BEGIN replaced a reassembly in progress while a block waited in the
\* rx queue
C30_Witness ==
    /\ link = "ord"
    /\ "begin" \in hist.frees
    /\ rx.receiving
    /\ rx.packets_received = 1
    /\ rx.packet_received_map[0]
    /\ rx.rx_buffer \in alive
    /\ heap[rx.rx_buffer] = Zeros(rx.total_size)
    /\ rx_queue # <<>>
    /\ \A i \in DOMAIN rx_queue : rx_queue[i].data_ptr \in alive

\* C31 (mutex discipline): every step that changes the channel's rx or tx
\* state, the peer MAC the engine uses, or the link statistics is taken by
\* code that holds s_rdt_mutex.
C31_MutexDiscipline ==
    [][(\/ rx' # rx
        \/ tx' # tx
        \/ rssi' # rssi
        \/ pnode'[NodeB].peer # pnode[NodeB].peer)
          => sync.mutex = sync'.by]_vars

\* what the unguarded reset costs: the store of rdt_task's `+=` put back a
\* count that Wireless_Error_Rate_Get had cleared in between
C31_LostUpdate ==
    link = "mutex" /\ sync.lost /\ sync.mutex = "rdt_task"

\* C33 (ASK soundness): every block the sender has freed on an ASK had been
\* reassembled completely by the receiver, with the same size and bytes,
\* when that ASK was taken.
C33_AskSoundness == hist.acked \subseteq hist.reasm

\* C34 (block integrity across blocks): every block in the receiver's rx
\* queue has the bytes of one single block the application gave to
\* Rdt_SendBlock, in the length the queue item states.
C34_BlockIntegrity ==
    \A i \in DOMAIN rx_queue :
        rx_queue[i].data_ptr \in alive =>
            \E k \in 1..hist.nsent :
                heap[rx_queue[i].data_ptr] = BlockData(k, rx_queue[i].data_size)

\* C35 (at-most-once delivery): no block given once to Rdt_SendBlock is put
\* in the peer's rx queue a second time (the blocks the application sends
\* differ from one another in every byte).
C35_AtMostOnce ==
    \A i, j \in DOMAIN hist.queued :
        i < j => hist.queued[i] # hist.queued[j]

\* C36 (ASK implies availability): whenever the receiver puts an ASK on the
\* air for a reassembled block, that block was inserted into its rx queue.
C36_AskAvailable ==
    [][netBA' = Append(netBA, MkPacket(0, RDT_MSG_ASK, <<>>)) =>
          /\ Len(rx_queue') = Len(rx_queue) + 1
          /\ rx_queue'[Len(rx_queue')].data_ptr = rx.rx_buffer]_vars

--------------------------------------------------------------------------
(* Claims about pairing *)

BothEnded == \A n \in Nodes : pnode[n].task = "ended"

\* C5 (all or nothing): once both pairing tasks have ended, either both
\* nodes have each other's MAC persisted or both have the all-zero MAC.
C5_AllOrNothing ==
    BothEnded =>
        \/ \A n \in Nodes : pnode[n].persisted = MyMac(Other(n))
        \/ \A n \in Nodes : pnode[n].persisted = ZERO_MAC

\* C6 (pairing success, S4): two nodes that start unpaired and whose pairing
\* windows overlap have, once both pairing tasks have ended, each other's
\* MAC persisted and report CON_PAIRED.
C6_PairingSuccess ==
    (BothEnded /\ (\A n \in Nodes : pnode[n].fresh)
               /\ (\E n \in Nodes : pnode[n].joined))
        => \A n \in Nodes : /\ pnode[n].persisted = MyMac(Other(n))
                            /\ Wireless_Pairing_Status_Get(n) = CON_PAIRED

\* the event loop runs the SYSTEM handler at the client node
HandlerStep == sysev'[ClientNode] = sysev[ClientNode] - 1

\* the block the handler takes from the rx queue
HandlerMsg == Head(sysrx[ClientNode])

\* C32 (temp-peer rule): while pairing is active, a PAIRING_MAC or
\* PAIRING_DONE with a non-zero MAC stores that MAC as temp_peer_mac when
\* none is stored and leaves the stored one when there is one, and a stored
\* temp_peer_mac stays as it is for as long as pairing is active; a block
\* with the all-zero MAC, and an event handled while pairing is not active,
\* change nothing of the node's pairing state and queue no reply.
C32_TempPeerRule ==
    /\ [][(/\ HandlerStep
           /\ pnode[ClientNode].pairing_active
           /\ sysrx[ClientNode] # <<>>
           /\ HandlerMsg.message_type \in {W_MSG_TYPE_SYSTEM_PAIRING_MAC,
                                           W_MSG_TYPE_SYSTEM_PAIRING_DONE}
           /\ HandlerMsg.peer_addr # ZERO_MAC)
             => /\ pnode'[ClientNode].have_temp_peer
                /\ pnode'[ClientNode].temp_peer_mac =
                      IF pnode[ClientNode].have_temp_peer
                      THEN pnode[ClientNode].temp_peer_mac
                      ELSE HandlerMsg.peer_addr]_vars
    /\ [][(/\ pnode[ClientNode].pairing_active
           /\ pnode'[ClientNode].pairing_active
           /\ pnode[ClientNode].have_temp_peer)
             => /\ pnode'[ClientNode].have_temp_peer
                /\ pnode'[ClientNode].temp_peer_mac = pnode[ClientNode].temp_peer_mac]_vars
    /\ [][(/\ HandlerStep
           /\ \/ ~pnode[ClientNode].pairing_active
              \/ /\ sysrx[ClientNode] # <<>>
                 /\ HandlerMsg.peer_addr = ZERO_MAC
                 /\ HandlerMsg.message_type \in
                        {W_MSG_TYPE_SYSTEM_PAIRING_MAC,
                         W_MSG_TYPE_SYSTEM_PAIRING_DONE})
             => /\ pnode'[ClientNode] = pnode[ClientNode]
                /\ systx' = systx]_vars

\* during the pairing window the handler took a block with one MAC and then
\* a block with another, and has the first stored
C32_Witness ==
    /\ link = "pairany"
    /\ Len(hist.sysin) = 2
    /\ \A i \in 1..2 : /\ hist.sysin[i].active
                       /\ hist.sysin[i].room
                       /\ hist.sysin[i].msg.message_type \in
                              {W_MSG_TYPE_SYSTEM_PAIRING_MAC,
                               W_MSG_TYPE_SYSTEM_PAIRING_DONE}
    /\ hist.sysin[1].msg.peer_addr = MyMac(3)
    /\ hist.sysin[2].msg.peer_addr = MyMac(Other(ClientNode))
    /\ sysrx[ClientNode] = <<>>
    /\ pnode[ClientNode].pairing_active
    /\ pnode[ClientNode].have_temp_peer
    /\ pnode[ClientNode].temp_peer_mac = MyMac(3)

--------------------------------------------------------------------------
(* Claims about the parameter service *)

\* C7 (single in-flight request): a call that finds a request in progress
\* returns -2 with return code 0xFE, sends nothing and leaves the pending
\* request, the semaphore and the other task untouched.
C7_BusyRejected ==
    [][\A t \in Tasks :
          (ptask[t].pc = "check" /\ ptask'[t].pc # "check"
                                 /\ pglob[ClientNode].in_progress)
              => /\ ptask'[t].pc = "idle"
                 /\ ptask'[t].ret = -2
                 /\ ptask'[t].return_code = RC_BUSY
                 /\ pglob' = pglob
                 /\ pchan' = pchan
                 /\ \A u \in Tasks \ {t} : ptask'[u] = ptask[u]]_vars

\* a second call was rejected and the first one then completed with 0
C7_Witness ==
    \E t \in Tasks : \E u \in Tasks \ {t} :
        /\ ptask[t].returned /\ ptask[t].ret = -2
        /\ ptask[t].return_code = RC_BUSY
        /\ ptask[t].calls = 1
        /\ ptask[u].returned /\ ptask[u].ret = 0
        /\ ptask[u].calls = 1

\* C8 (one request slot): at most one task at a time has recorded its
\* request in the slot and not yet returned.
C8_OneSlot ==
    Cardinality({t \in Tasks : ptask[t].pc \in {"semtake", "send", "wait"}}) <= 1

\* C9 (S5): a GET of a type the server has no descriptor for is answered:
\* once the client's handler has taken a block of that type for the waiting
\* caller, the caller is woken with return code 1 and size 0.
C9_UnregisteredGet ==
    \A t \in Tasks :
        (/\ ptask[t].pc = "wait"
         /\ ptask[t].set_or_get = W_PARAM_GET
         /\ pglob[ClientNode].resp_user_size = t
         /\ pglob[Other(ClientNode)].table[ptask[t].message_type] = "none"
         /\ pglob[ClientNode].answered)
            => /\ pglob[ClientNode].sem = 1
               /\ pglob[ClientNode].resp_return_code = 1
               /\ ptask[t].resp_size = 0

\* C10 (server reply): for every GET or SET block the handler sends exactly
\* one reply, with op RESP (2), the request's message_type, and the return
\* code and data of the table: 1 and no data for a type not found.
C10_ServerReply ==
    (plog.node # 0 /\ plog.req.set_or_get \in {W_PARAM_GET, W_PARAM_SET})
        => /\ Len(plog.replies) = 1
           /\ plog.replies[1].set_or_get = 2
           /\ plog.replies[1].message_type = plog.req.message_type
           /\ LET kind == pglob[plog.node].table[plog.req.message_type]
                  get == plog.req.set_or_get = W_PARAM_GET
                  r == plog.replies[1]
              IN  /\ kind = "none" => r.return_code = 1 /\ r.data = <<>>
                  /\ (kind # "none" /\ get /\ ~HasRead(kind))
                        => r.return_code = 2 /\ r.data = <<>>
                  /\ (kind # "none" /\ ~get /\ ~HasWrite(kind))
                        => r.return_code = 3 /\ r.data = <<>>
                  /\ (get /\ HasRead(kind))
                        => /\ r.return_code = 0
                           /\ r.data = pglob[plog.node].val[plog.req.message_type]
                  /\ (~get /\ HasWrite(kind))
                        => r.return_code = 0 /\ r.data = <<>>

\* C11 (client completion): when the server can read the parameter and the
\* client's handler takes a block of the pending GET request's message_type
\* while the caller waits, the caller is
\* signalled, the block's return_code is recorded, and the caller's buffer
\* holds the block's data truncated to the buffer size, with the size
\* in/out value set to the number of bytes copied.
C11_ClientCompletion ==
    [][\A t \in Tasks :
          (/\ ptask[t].pc = "wait"
           /\ ptask[t].set_or_get = W_PARAM_GET
           /\ pglob[ClientNode].in_progress
           /\ pglob[ClientNode].resp_user_size = t
           /\ pglob[ClientNode].req_msg_type = ptask[t].message_type
           /\ HasRead(pglob[Other(ClientNode)].table[ptask[t].message_type])
           /\ pchan[ClientNode] # <<>>
           /\ Head(pchan[ClientNode]).message_type = ptask[t].message_type
           /\ plog'.node = ClientNode
           /\ plog'.req = Head(pchan[ClientNode])
           /\ plog' # plog)
              => LET blk == Head(pchan[ClientNode])
                     len == Min(Len(blk.data), ptask[t].resp_size)
                 IN  /\ pglob'[ClientNode].sem = 1
                     /\ pglob'[ClientNode].resp_return_code = blk.return_code
                     /\ ptask'[t].resp_size = len
                     /\ ptask'[t].resp_data = Prefix(blk.data, len)]_vars

\* C12 (client timeout): a call whose wait times out returns -3 with return
\* code 0xFC and clears g_request_in_progress, and a call that finds the
\* flag clear is accepted, not rejected with 0xFE.
C12_Timeout ==
    [][\A t \in Tasks :
          /\ (ptask[t].pc = "wait" /\ ptask'[t].pc # "wait"
                                   /\ pglob[ClientNode].sem = 0)
                => /\ ptask'[t].pc = "idle"
                   /\ ptask'[t].ret = -3
                   /\ ptask'[t].return_code = RC_TIMEOUT
                   /\ ~pglob'[ClientNode].in_progress
          /\ (ptask[t].pc = "check" /\ ptask'[t].pc # "check"
                                    /\ ~pglob[ClientNode].in_progress)
                => /\ ptask'[t].pc = "set"
                   /\ ~ptask'[t].returned]_vars

\* a call timed out and a later call of the other task was accepted
C12_Witness ==
    \E t \in Tasks : \E u \in Tasks \ {t} :
        /\ ptask[t].returned /\ ptask[t].ret = -3
        /\ ptask[t].return_code = RC_TIMEOUT
        /\ ptask[u].after_timeout
        /\ ptask[u].pc = "wait"

\* C37 (parameter exchange terminates): the server only answers, so every
\* block the client's handler takes is a response, and the client's handler
\* sends nothing in reaction to it.
C37_ExchangeEnds ==
    plog.node = ClientNode => plog.replies = <<>>

\* the block w_param_send_request_async builds for task t's call
RequestOf(t) ==
    ParamBlock(ptask[t].message_type, ptask[t].set_or_get, 0, ptask[t].value)

\* C38 (parameter response correlation): a call accepted after another call
\* has timed out is completed only by the response to its own request: when
\* it returns 0, its request is not still waiting unserved in the server's
\* queue.
C38_ResponseCorrelation ==
    [][\A t \in Tasks :
          (/\ ptask[t].pc = "wait"
           /\ ptask[t].after_timeout
           /\ ptask'[t].returned
           /\ ptask'[t].ret = 0)
              => \A i \in DOMAIN pchan[Other(ClientNode)] :
                     pchan[Other(ClientNode)][i] # RequestOf(t)]_vars

--------------------------------------------------------------------------
(* Claims about the file service *)

\* the tasks whose request has been given its id (lines 260 to 361)
HasFileId ==
    {t \in Tasks : ftask[t].pc \in {"semclear", "send", "prep", "wait"}}

\* C13 (file response matching): when w_files_receive_cb takes a response
\* while no request with an id is pending, or one whose request_id differs
\* from the pending request's id, the client's statics (return code,
\* response buffer, data length, semaphore) and every caller's variables
\* are unchanged.
C13_ResponseMatching ==
    [][(/\ fchan[ClientNode] # <<>>
        /\ fchan'[ClientNode] = Tail(fchan[ClientNode])
        /\ Head(fchan[ClientNode]).command \in FileResponses
        /\ \/ HasFileId = {}
           \/ Head(fchan[ClientNode]).request_id
                  # fglob[ClientNode].current_request_id)
          => /\ fglob' = fglob
             /\ ftask' = ftask]_vars

\* C14 (file request ids): every request sent carries a non-zero id that
\* differs from the id of the request sent before it, and the counter goes
\* up by one per request, from 65535 to 1, and is never 0.
C14_RequestIds ==
    /\ [](/\ fglob[ClientNode].next_request_id \in 1 .. (IdModulus - 1)
          /\ \A i \in DOMAIN flog.sent :
                /\ flog.sent[i] \in 1 .. (IdModulus - 1)
                /\ i > 1 => flog.sent[i] # flog.sent[i - 1])
    /\ [][fglob'[ClientNode].next_request_id # fglob[ClientNode].next_request_id
            => /\ fglob'[ClientNode].current_request_id
                    = fglob[ClientNode].next_request_id
               /\ fglob'[ClientNode].next_request_id
                    = IF fglob[ClientNode].next_request_id = IdModulus - 1
                      THEN 1
                      ELSE fglob[ClientNode].next_request_id + 1]_vars

\* the request after the one with id 65535 was sent with id 1
C14_Witness ==
    \E i \in DOMAIN flog.sent :
        /\ flog.sent[i] = 1
        /\ i > 1
        /\ flog.sent[i - 1] = IdModulus - 1

\* the tasks between taking g_mutex and giving it back
InFileSlot ==
    {t \in Tasks : ftask[t].pc \in {"check", "set", "id", "semclear", "send",
                                    "prep", "wait"}}

\* C15 (single in-flight file request): at most one task is between the
\* mutex and its return, it is the mutex's owner, and a caller whose wait
\* for the mutex times out returns -2 without changing the statics, the
\* queues or the other task.
C15_SingleInFlight ==
    /\ [](/\ Cardinality(InFileSlot) <= 1
          /\ \A t \in InFileSlot : fglob[ClientNode].mutex = t)
    /\ [][\A t \in Tasks :
            (ftask[t].pc = "mutex" /\ ftask'[t].pc = "idle")
               => /\ ftask'[t].ret = -2
                  /\ fglob' = fglob
                  /\ fchan' = fchan
                  /\ \A u \in Tasks \ {t} : ftask'[u] = ftask[u]]_vars

\* a caller gave up on the mutex while the other caller's request waits
C15_Witness ==
    \E t \in Tasks : \E u \in Tasks \ {t} :
        /\ ftask[t].returned /\ ftask[t].ret = -2
        /\ ftask[u].pc = "wait"
        /\ ftask[u].calls = 1
        /\ fglob[ClientNode].mutex = u

\* a LIST, READ or WRITE block with a whole header that announces a path
\* and data longer than the block
Malformed(pkt) ==
    /\ pkt.command \in FileRequests
    /\ pkt.size >= W_FILES_HEADER_LEN
    /\ W_FILES_HEADER_LEN + pkt.path_length + pkt.data_length > pkt.size

C39_ResultConsistency ==
    [][\A t \in Tasks :
          (/\ ftask[t].pc = "wait"
           /\ ftask'[t].returned
           /\ ftask'[t].ret = 0
           /\ flog.node = ClientNode
           /\ flog.pkt.command \in FileResponses
           /\ flog.pkt.request_id = fglob[ClientNode].current_request_id)
              => /\ ftask'[t].return_code = flog.pkt.return_code
                 /\ ftask[t].command # W_FILES_CMD_WRITE
                       => ftask'[t].out_data
                             = Prefix(flog.pkt.data,
                                      Min(Len(flog.pkt.data),
                                          ftask[t].inout_size))]_vars

======================================================================
